---- MODULE Spec2Model ----
(***************************************************************************)
(* Model of the smart-wallet transaction construction pipeline:            *)
(*   createSmartWalletTransaction      (single call, execute)              *)
(*   createSmartWalletBatchTransaction (batch, executeBatch)               *)
(*   createNFTTransferTransaction      (NFT / ENS entry point)             *)
(*   createENSTransferCalls            (ENS transfer plan)                 *)
(* One run is one invocation of an entry point.  Every await of the code   *)
(* is one step of the run; the provider's answers are chosen by the        *)
(* environment.  Addresses are lower-case strings, so toLowerCase() is     *)
(* the identity on them.                                                   *)
(***************************************************************************)
EXTENDS Integers, Sequences, FiniteSets, TLC

(* ------------------------------ bounds --------------------------------- *)
MaxAmount == 2
MaxTokenId == 1
MaxNonce == 1
MaxSetups == 2
MaxWallets == 2
MaxOwnerCount == 3
MaxRuns == 2

(* ------------------------- program constants --------------------------- *)
DefaultGasLimit == 200000
DefaultBatchGasLimit == 300000
DefaultDecimals == 18
DefaultMaxNonce == 5
CallerMaxNonce == 3
GasBufferPercent == 150

Account == "account"
Signer == "signer"
Recipient == "recipient"
Other == "other"
Token == "token"
Nft == "nft"
Multi == "multi"
Resolver == "resolver"
ZeroAddress == "0x0000000000000000000000000000000000000000"
REGISTRY == "ens_registry"
BASE_REGISTRAR == "ens_base_registrar"
NAME_WRAPPER == "ens_name_wrapper"
Third == "0xthird"
SignerBytes == "0x000000000000000000000000signer"
ThirdBytes == "0x000000000000000000000000third"
OwnerBytes == "ownerbytes"

ChainIds == {1, 8453, 10}
Amounts == 0..MaxAmount
TokenIds == 1..MaxTokenId
GasEstimates == {21000, 21001}
OwnerBalances == {0, 31500, 1000000}

(* --------------------------- call payloads ----------------------------- *)
(* A payload is the function it encodes plus its arguments; ok = FALSE is  *)
(* a payload that starts with the selector but whose arguments do not      *)
(* decode.  EmptyData is '0x'.                                             *)
Payload(sig, from, to, id, amount) ==
  [sig |-> sig, from |-> from, to |-> to, id |-> id, amount |-> amount, ok |-> TRUE]

EmptyData == Payload("", "", "", 0, 0)

Selector(data) ==
  CASE data.sig = "transfer" -> "0xa9059cbb"
    [] data.sig = "transferFrom" -> "0x23b872dd"
    [] data.sig = "safeTransferFrom721" -> "0x42842e0e"
    [] data.sig = "safeTransferFrom1155" -> "0xf242432a"
    [] data.sig = "" -> "0x"
    [] OTHER -> data.sig

FragmentSelector(abi, name) ==
  CASE abi = "ERC20" /\ name = "transfer" -> "0xa9059cbb"
    [] abi = "ERC721" /\ name = "transferFrom" -> "0x23b872dd"
    [] abi = "ERC721" /\ name = "safeTransferFrom" -> "0x42842e0e"
    [] abi = "ERC1155" /\ name = "safeTransferFrom" -> "0xf242432a"
    [] OTHER -> "unknown"

(* Interface.decodeFunctionData(name, data): throws unless the data starts *)
(* with the selector of the named fragment and the arguments decode.       *)
decodeFunctionData(abi, name, data) ==
  Selector(data) = FragmentSelector(abi, name) /\ data.ok

(* ethers.isAddress                                                        *)
isAddress(a) == a \notin {"", "not-an-address"}

(* const recipient = decoded[0]; const transferAmount = decoded[1]         *)
transferArguments(data) == << data.to, data.amount >>

Call(target, value, data) == [target |-> target, value |-> value, data |-> data]

createSendETHCall(recipient, amountWei) == Call(recipient, amountWei, EmptyData)

createSendERC20Call_approve(tokenAddress, recipient, amountWei) ==
  Call(tokenAddress, 0, Payload("approve", "", recipient, 0, amountWei))

(* encodeFunctionData('transfer', [recipient, amountWei]) on the token     *)
createSendERC20Call(tokenAddress, recipient, amountWei) ==
  Call(tokenAddress, 0, Payload("transfer", "", recipient, 0, amountWei))

isENSContract(contractAddress) ==
  contractAddress = BASE_REGISTRAR \/ contractAddress = NAME_WRAPPER

isWrappedENS(contractAddress) == contractAddress = NAME_WRAPPER

createNFTTransferCall(nftContractAddress, fromAddress, toAddress, tokenId) ==
  IF isWrappedENS(nftContractAddress)
  THEN Call(nftContractAddress, 0,
            Payload("safeTransferFrom1155", fromAddress, toAddress, tokenId, 1))
  ELSE Call(nftContractAddress, 0,
            Payload("safeTransferFrom721", fromAddress, toAddress, tokenId, 0))

createERC1155TransferCall(nftContractAddress, fromAddress, toAddress, tokenId, amount) ==
  Call(nftContractAddress, 0,
       Payload("safeTransferFrom1155", fromAddress, toAddress, tokenId, amount))

createAddOwnerTransaction(smartWalletAddress, newOwnerAddress) ==
  Call(smartWalletAddress, 0, Payload("addOwnerAddress", "", newOwnerAddress, 0, 0))

createRemoveOwnerTransaction(smartWalletAddress, ownerIndex, ownerBytes) ==
  Call(smartWalletAddress, 0, Payload("removeOwnerAtIndex", ownerBytes, "", ownerIndex, 0))

encodeExecuteCall(c) == [fn |-> "execute", calls |-> <<c>>]

encodeExecuteBatchCall_firstOnly(cs) == [fn |-> "executeBatch", calls |-> << cs[1] >>]

encodeExecuteBatchCall(cs) == [fn |-> "executeBatch", calls |-> cs]

(* ------------------------------ ENS plan ------------------------------- *)
(* ensInfo.resolver is null (""), the zero address or a resolver address.  *)
NullAddr == ""

createENSTransferCalls_tokenFirst(contractAddress, tokenId, currentOwner, newOwner, resolver) ==
  IF isWrappedENS(contractAddress)
  THEN << Call(NAME_WRAPPER, 0,
               Payload("safeTransferFrom1155", currentOwner, newOwner, tokenId, 1)) >>
  ELSE << Call(BASE_REGISTRAR, 0,
               Payload("safeTransferFrom721", currentOwner, newOwner, tokenId, 0)) >>
       \o << Call(REGISTRY, 0, Payload("setOwner", "", newOwner, tokenId, 0)) >>
       \o (IF resolver # NullAddr /\ resolver # ZeroAddress
           THEN << Call(resolver, 0, Payload("setAddr", "", newOwner, tokenId, 0)) >>
           ELSE << >>)

createENSTransferCalls(contractAddress, tokenId, currentOwner, newOwner, resolver) ==
  IF isWrappedENS(contractAddress)
  THEN << Call(NAME_WRAPPER, 0,
               Payload("safeTransferFrom1155", currentOwner, newOwner, tokenId, 1)) >>
  ELSE (IF resolver # NullAddr /\ resolver # ZeroAddress
        THEN << Call(resolver, 0, Payload("setAddr", "", newOwner, tokenId, 0)) >>
        ELSE << >>)
       \o << Call(REGISTRY, 0, Payload("setOwner", "", newOwner, tokenId, 0)) >>
       \o << Call(BASE_REGISTRAR, 0,
                  Payload("safeTransferFrom721", currentOwner, newOwner, tokenId, 0)) >>

getENSTransferSteps(isWrapped) ==
  IF isWrapped
  THEN << "Transfer Wrapped ENS Token" >>
  ELSE << "Update ETH Record", "Update Manager (Registry)", "Transfer NFT Token (Owner)" >>

(* ------------------------------ helpers -------------------------------- *)
chainName(id) ==
  IF id = 1 THEN "Ethereum" ELSE IF id = 8453 THEN "Base" ELSE "Chain " \o ToString(id)

RECURSIVE Pow10(_)
Pow10(d) == IF d = 0 THEN 1 ELSE 10 * Pow10(d - 1)

(* ethers.formatUnits(value, decimals) as <<whole part, fraction digits>>. *)
(* Every amount of the model is below 10^9, so with more than 8 decimals   *)
(* the whole part is 0.                                                    *)
formatUnits(value, decimals) ==
  IF decimals > 8 THEN << 0, value >>
  ELSE << value \div Pow10(decimals), value % Pow10(decimals) >>

(* feeData.maxFeePerGas is null (<<>>) or a value (<<v>>).                 *)
OrZero(opt) == IF opt = << >> THEN 0 ELSE opt[1]

NoErr == [kind |-> "none", chain |-> "", required |-> << 0, 0 >>, available |-> << 0, 0 >>]

NoFeeData == [maxFeePerGas |-> << >>, maxPriorityFeePerGas |-> << >>]

(* Markers of the thrown messages that the catch blocks test with          *)
(* message.includes(...).  A decoding error carries none of them.          *)
Markers(kind) ==
  CASE kind = "NftNotOwned" -> {"ERRORE", "NON possiede"}
    [] kind = "NftOwnerUnverifiable" -> {"ERRORE"}
    [] kind = "InsufficientAsset1155" -> {"ERRORE", "NON possiede"}
    [] kind = "BalanceUnverifiable1155" -> {"ERRORE"}
    [] kind = "SimulationFailed" -> {"ERRORE"}
    [] kind = "SimulationFailedERC20" -> {"ERRORE", "ERRORE CRITICO"}
    [] kind = "InsufficientAsset" -> {"ERRORE", "Balance insufficiente"}
    [] OTHER -> {}

NftCatchRethrows_ownershipOnly(kind) == "NON possiede" \in Markers(kind)

(* catch (error) of the ERC-721 and of the ERC-1155 block: rethrow iff     *)
(* the message includes the error prefix.                                  *)
NftCatchRethrows(kind) == "ERRORE" \in Markers(kind)

(* catch (error) of the ERC-20 block.                                      *)
Erc20CatchRethrows(kind) ==
  "Balance insufficiente" \in Markers(kind) \/ "ERRORE CRITICO" \in Markers(kind)

(* if (code === '0x') throw                                                *)
codeIsEmpty(deployed) == ~ deployed

ownershipVerified_always(result) == TRUE

(* if (!isOwnerResult) throw                                               *)
ownershipVerified(result) == result = "true"

balanceInsufficient_never(balance, amount) == FALSE

(* if (tokenBalance < transferAmount) throw                                *)
balanceInsufficient(balance, amount) == balance < amount

withBuffer_none(g) == g

(* gasLimit = (gasLimit * 150n) / 100n                                     *)
withBuffer(g) == (g * GasBufferPercent) \div 100

(* ------------------------------- state --------------------------------- *)
VARIABLES
  pc,            \* position of the run
  fn,            \* assembler in use: "none", "single" or "batch"
  entry,         \* entry point of the run
  nftArgs,       \* arguments of createNFTTransferTransaction
  call,          \* the call of the single-call path
  plan,          \* calls of the ENS plan / of the batch
  chainId,
  chain,         \* chain facts the provider answers from
  net,           \* network requests issued in this run, in order
  isOwnerResult,
  tokenBalance, tokenSymbol, tokenDecimals,
  decoded,       \* decoded[0], decoded[1] of the ERC-20 block, << >> before
  simulated,     \* outcome of the preflight provider.call
  nonce, feeData, gasLimit, estimated, ownerBalance,
  gasEstimate,   \* the raw answer of provider.estimateGas
  steps,         \* the labels of getENSTransferSteps
  warnings, err, txs,
  ensInfo,       \* the resolver field of getENSInfo's result
  handler,       \* the UI handler that awaits the builder, or "none"
  hpc,           \* position of that handler
  ext,           \* invocations of the external signer and broadcaster, in order
  uiError,       \* "none", "error" (setError) or "pinError" (setPinError)
  isConfirmed,
  omOpen,        \* SmartWalletOwnerManager is mounted
  owners,        \* its owners state: the list of the last loadOwners
  operationType, targetOwner, targetOwnerIndex, targetOwnerBytes,
  showPinInput,
  registry,      \* outcome of the registry request of findSmartWallets
  setups,        \* data.setups of the registry answer
  maxNonce,      \* the maxNonce argument of findSmartWallets
  factoryIx,     \* position of the loop over COINBASE_SMART_WALLET_FACTORIES
  nonceIx,       \* the loop variable nonce
  wallets,       \* the wallets array of findSmartWallets
  fallback,      \* kinds of on-chain requests issued by the fallback
  ownerAnswer,   \* answer of the last isOwnerAddress of the fallback
  examined,      \* candidates <<factory, nonce>> whose address the fallback derived
  caller,        \* who invoked findSmartWallets
  primary,       \* return value of getPrimarySmartWallet
  again,         \* this run repeats an earlier one, registry and chain unchanged
  previous,      \* the records the earlier run returned
  content,       \* the setups the registry holds, as the earlier run received them
  address, isConnected,            \* useWalletStore: the connected card
  smartWalletAddress, isSmartWallet,
  availableSmartWallets, activeWalletType, activeSmartWalletAddress,
  publicKey, keySlot,              \* useWalletStore: the card's key (keySlot 0 is null)
  balance, connectionMode,
  storeChain,                      \* useWalletStore: chainId, rpcUrl and chainName
  storeOp,                         \* the store function called last (its console.log line)
  listPc,                          \* getSmartWalletOwners: position of the call
  ownerCount,                      \* ... the answer of ownerCount()
  slot,                            \* ... the loop index i
  listed,                          \* ... the array owners
  slotAnswers,                     \* ... what ownerAtIndex answered for slots 0..i-1
  customTokens,                    \* AddCustomToken: useState customTokens
  tokenInfo,                       \* AddCustomToken: useState tokenInfo (NoToken is null)
  localStorage,                    \* the lists stored under customTokens_<chainId>
  inputAddress, isChecking,        \* SmartWalletConfig: useState values
  isAutoDetecting, showConfig, foundWallets, showWalletsList,
  checkedAddress,                  \* ... inputAddress as the running handleCheckOwnership sees it
  checkAnswer,                     \* ... isOwnerResult of the last verification
  isSending, nftShowPinInput,      \* NFTManager: useState isSending, showPinInput
  pinError, nftError,              \* ... pinError and error ("none" is null)
  nftIsConfirmed,                  \* ... isConfirmed
  savedNFTs, selectedNFT,          \* ... savedNFTs, selectedNFT (0 is null)
  runs,                            \* ... the handlePinSubmit calls in flight: stage and NFT
  lastOutcome                      \* ... how the handlePinSubmit call that ended last ended

inputVars == << entry, nftArgs, chainId, chain >>
planVars == << fn, call, plan, ensInfo, steps >>
tokenVars == << tokenBalance, tokenSymbol, tokenDecimals, decoded >>
asmVars == << nonce, feeData, gasLimit, estimated, gasEstimate, ownerBalance >>
omVars == << omOpen, owners, operationType, targetOwner, targetOwnerIndex, targetOwnerBytes,
            showPinInput >>
uiVars == << handler, hpc, ext, uiError, isConfirmed, omVars >>
rerunVars == << again, previous, content >>
discVars == << registry, setups, maxNonce, factoryIx, nonceIx, wallets, fallback, ownerAnswer,
              examined, caller, primary, rerunVars >>
pipeVars == << inputVars, planVars, net, isOwnerResult, tokenVars, simulated, asmVars,
               warnings, err, txs >>
smartVars == << smartWalletAddress, isSmartWallet, availableSmartWallets, activeWalletType,
               activeSmartWalletAddress >>
cardVars == << address, isConnected, publicKey, keySlot >>
storeVars == << cardVars, smartVars, balance, connectionMode, storeChain, storeOp >>
listVars == << listPc, ownerCount, slot, listed, slotAnswers >>
tokVars == << customTokens, tokenInfo, localStorage >>
cfgVars == << inputAddress, isChecking, isAutoDetecting, showConfig, foundWallets,
             showWalletsList, checkedAddress, checkAnswer >>
nftVars == << isSending, nftShowPinInput, pinError, nftError, nftIsConfirmed, savedNFTs,
             selectedNFT, runs, lastOutcome >>
compVars == << listVars, tokVars, cfgVars, nftVars >>
runVars == << pc, pipeVars, uiVars, discVars >>
vars == << runVars, storeVars, compVars >>
exceptList == << runVars, storeVars, tokVars, cfgVars, nftVars >>
exceptTok == << runVars, listVars, cfgVars, nftVars >>
exceptCfg == << runVars, listVars, tokVars, nftVars >>
exceptNft == << runVars, storeVars, listVars, tokVars, cfgVars >>

NoCall == Call("", 0, EmptyData)
NoNftArgs == [contract |-> "", tokenId |-> 0]

ChainFacts ==
  [ deployed : BOOLEAN,
    nftOwner : {Account, Other, "error"},
    tokenBal : Amounts, tokenBalFails : BOOLEAN,
    bal1155 : Amounts, bal1155Fails : BOOLEAN,
    nativeBal : Amounts ]

DefaultFacts ==
  [ deployed |-> TRUE, nftOwner |-> Account, tokenBal |-> 0, tokenBalFails |-> FALSE,
    bal1155 |-> 0, bal1155Fails |-> FALSE, nativeBal |-> 0 ]

(* Facts that the run of call c can depend on; the others are pinned.      *)
FactsFor(c) ==
  { f \in ChainFacts :
      /\ (c.data.sig \notin {"transferFrom", "safeTransferFrom721"}
            => f.nftOwner = DefaultFacts.nftOwner)
      /\ (c.data.sig # "transfer"
            => f.tokenBal = 0 /\ f.tokenBalFails = FALSE)
      /\ (c.data.sig # "safeTransferFrom1155"
            => f.bal1155 = 0 /\ f.bal1155Fails = FALSE)
      /\ (c.data # EmptyData => f.nativeBal = 0)
      /\ (f.tokenBalFails => f.tokenBal = 0)
      /\ (f.bal1155Fails => f.bal1155 = 0) }

Malformed(data) == [data EXCEPT !.ok = FALSE]

(* The calls handed to createSmartWalletTransaction.                       *)
SingleCalls ==
  { createSendETHCall(Recipient, v) : v \in Amounts }
  \cup { createSendERC20Call(Token, Recipient, a) : a \in Amounts }
  \cup { createNFTTransferCall(Nft, f, Recipient, i) : f \in {Account, Other}, i \in TokenIds }
  \cup { Call(Nft, 0, Payload("transferFrom", f, Recipient, i, 0)) :
           f \in {Account, Other}, i \in TokenIds }
  \cup { createERC1155TransferCall(Multi, f, Recipient, i, a) :
           f \in {Account, Other}, i \in TokenIds, a \in Amounts }
  \cup { createAddOwnerTransaction(Account, Other),
         createRemoveOwnerTransaction(Account, 1, OwnerBytes),
         Call(Token, 0, Payload("approve", "", Recipient, 0, 1)) }
  \cup { Call(Token, 0, Malformed(Payload("transfer", "", "", 0, 0))),
         Call(Nft, 0, Malformed(Payload("transferFrom", "", "", 0, 0))),
         Call(Multi, 0, Malformed(Payload("safeTransferFrom1155", "", "", 0, 0))) }

Init ==
  /\ pc = "idle"
  /\ fn = "none"
  /\ entry = "none"
  /\ nftArgs = NoNftArgs
  /\ call = NoCall
  /\ plan = << >>
  /\ chainId = 1
  /\ chain = DefaultFacts
  /\ net = << >>
  /\ isOwnerResult = "unset"
  /\ tokenBalance = 0
  /\ tokenSymbol = "UNKNOWN"
  /\ tokenDecimals = DefaultDecimals
  /\ decoded = << >>
  /\ simulated = "no"
  /\ nonce = 0
  /\ feeData = NoFeeData
  /\ gasLimit = 0
  /\ estimated = "no"
  /\ gasEstimate = 0
  /\ steps = << >>
  /\ ownerBalance = 0
  /\ warnings = {}
  /\ err = NoErr
  /\ txs = << >>
  /\ ensInfo = [resolver |-> NullAddr]
  /\ handler = "none"
  /\ hpc = "none"
  /\ ext = << >>
  /\ uiError = "none"
  /\ isConfirmed = FALSE
  /\ omOpen = FALSE
  /\ owners = << >>
  /\ operationType = "add"
  /\ targetOwner = ""
  /\ targetOwnerIndex = -1
  /\ targetOwnerBytes = ""
  /\ showPinInput = FALSE
  /\ registry = "none"
  /\ setups = << >>
  /\ maxNonce = 0
  /\ factoryIx = 1
  /\ nonceIx = 0
  /\ wallets = << >>
  /\ fallback = {}
  /\ ownerAnswer = "none"
  /\ examined = {}
  /\ caller = "none"
  /\ primary = "none"
  /\ again = FALSE
  /\ previous = {}
  /\ content = << >>
  /\ address = NullAddr
  /\ isConnected = FALSE
  /\ smartWalletAddress = NullAddr
  /\ isSmartWallet = FALSE
  /\ availableSmartWallets = << >>
  /\ activeWalletType = "burner"
  /\ activeSmartWalletAddress = NullAddr
  /\ publicKey = NullAddr
  /\ keySlot = 0
  /\ balance = "0"
  /\ connectionMode = "bridge"
  /\ storeChain = [chainId |-> 1, rpcUrl |-> "https://eth.llamarpc.com", chainName |-> "Ethereum"]
  /\ storeOp = "none"
  /\ listPc = "idle"
  /\ ownerCount = 0
  /\ slot = 0
  /\ listed = << >>
  /\ slotAnswers = << >>
  /\ customTokens = << >>
  /\ tokenInfo = [address |-> "", chainId |-> 0]
  /\ localStorage = [c \in {1, 8453} |-> << >>]
  /\ inputAddress = ""
  /\ isChecking = FALSE
  /\ isAutoDetecting = FALSE
  /\ showConfig = FALSE
  /\ foundWallets = << >>
  /\ showWalletsList = FALSE
  /\ checkedAddress = ""
  /\ checkAnswer = "none"
  /\ isSending = FALSE
  /\ nftShowPinInput = FALSE
  /\ pinError = "none"
  /\ nftError = "none"
  /\ nftIsConfirmed = FALSE
  /\ savedNFTs = {1, 2}
  /\ selectedNFT = 0
  /\ runs = [r \in 1..MaxRuns |-> [stage |-> "none", nft |-> 0]]
  /\ lastOutcome = "none"

Error(kind) == [NoErr EXCEPT !.kind = kind]

Throw(e) == pc' = "done" /\ err' = e

(* A caller invokes createSmartWalletTransaction(provider, account,        *)
(* signer, call, chainId).                                                 *)
BeginSingle(calls) ==
  /\ pc = "idle"
  /\ \E c \in calls, id \in ChainIds :
       /\ call' = c
       /\ chainId' = id
       /\ \E f \in FactsFor(c) : chain' = f
  /\ entry' = "createSmartWalletTransaction"
  /\ fn' = "single"
  /\ pc' = "getCode"
  /\ UNCHANGED << nftArgs, plan, ensInfo, steps, net, isOwnerResult, tokenVars, simulated, asmVars,
                  warnings, err, txs >>
  /\ UNCHANGED discVars
  /\ UNCHANGED << storeVars, compVars >>

StartSingle == ~ omOpen /\ BeginSingle(SingleCalls) /\ UNCHANGED uiVars

(* const code = await provider.getCode(smartWalletAddress)                 *)
GetCode ==
  /\ pc = "getCode"
  /\ net' = Append(net, "getCode")
  /\ \/ Throw(Error("RpcError"))
     \/ IF codeIsEmpty(chain.deployed)
        THEN Throw([Error("AccountNotDeployed") EXCEPT !.chain = chainName(chainId)])
        ELSE pc' = "isOwner" /\ err' = err
  /\ UNCHANGED << inputVars, planVars, isOwnerResult, tokenVars, simulated, asmVars, warnings, txs >>
  /\ UNCHANGED << uiVars, discVars >>
  /\ UNCHANGED << storeVars, compVars >>

(* isOwner(): wallet.isOwnerAddress(ownerAddress); when the query throws, *)
(* the catch logs 'Error checking owner:' and returns false.               *)
IsOwner ==
  /\ pc = "isOwner"
  /\ net' = Append(net, "isOwnerAddress")
  /\ \E answer \in {"true", "false", "error"} :
       LET result == IF answer = "error" THEN "false" ELSE answer IN
       /\ isOwnerResult' = result
       /\ warnings' = IF answer = "error" THEN warnings \cup {"Error checking owner"}
                      ELSE warnings
       /\ IF ownershipVerified(result)
          THEN pc' = "preflight" /\ err' = err
          ELSE Throw(Error("NotOwner"))
  /\ UNCHANGED << inputVars, planVars, tokenVars, simulated, asmVars, txs >>
  /\ UNCHANGED << uiVars, discVars >>
  /\ UNCHANGED << storeVars, compVars >>

(* The synchronous part of the pre-flight checks: selector dispatch and    *)
(* the decoding that precedes the first query of the block.                *)
Preflight ==
  /\ pc = "preflight"
  /\ LET selector == Selector(call.data) IN
     IF call.target # Account /\ call.data # EmptyData
     THEN IF selector = "0x42842e0e" \/ selector = "0x23b872dd"
          THEN IF decodeFunctionData("ERC721", "transferFrom", call.data)
               THEN pc' = "ownerOf" /\ UNCHANGED << err, warnings >>
               ELSE IF NftCatchRethrows("DecodeError")
                    THEN Throw(Error("DecodeError")) /\ UNCHANGED warnings
                    ELSE /\ warnings' = warnings \cup {"Could not complete NFT checks"}
                         /\ pc' = "fetch" /\ err' = err
          ELSE IF selector = "0xf242432a"
          THEN IF decodeFunctionData("ERC1155", "safeTransferFrom", call.data)
               THEN pc' = "balanceOf1155" /\ UNCHANGED << err, warnings >>
               ELSE IF NftCatchRethrows("DecodeError")
                    THEN Throw(Error("DecodeError")) /\ UNCHANGED warnings
                    ELSE /\ warnings' = warnings \cup {"Could not complete ERC-1155 checks"}
                         /\ pc' = "fetch" /\ err' = err
          ELSE IF selector = "0xa9059cbb"
          THEN pc' = "erc20Balance" /\ UNCHANGED << err, warnings >>
          ELSE pc' = "fetch" /\ UNCHANGED << err, warnings >>
     ELSE pc' = "fetch" /\ UNCHANGED << err, warnings >>
  /\ UNCHANGED << inputVars, planVars, net, isOwnerResult, tokenVars, simulated, asmVars, txs >>
  /\ UNCHANGED << uiVars, discVars >>
  /\ UNCHANGED << storeVars, compVars >>

fromMismatchAborts_strict(from) == from # Account

(* if (from.toLowerCase() !== smartWalletAddress.toLowerCase()) has only   *)
(* console.warn in its body: no throw, no return.                          *)
fromMismatchAborts(from) == FALSE

FromWarning(w) ==
  IF call.data.from # Account THEN w \cup {"from does not match Smart Wallet"} ELSE w

(* const owner = await nftContract.ownerOf(tokenId)                        *)
OwnerOf ==
  /\ pc = "ownerOf"
  /\ net' = Append(net, "ownerOf")
  /\ LET thrown == IF chain.nftOwner = "error" THEN "NftOwnerUnverifiable"
                   ELSE IF chain.nftOwner # Account THEN "NftNotOwned"
                   ELSE "none" IN
     IF thrown # "none" /\ NftCatchRethrows(thrown)
     THEN Throw(Error(thrown)) /\ UNCHANGED warnings
     ELSE IF thrown # "none"
     THEN /\ warnings' = warnings \cup {"Could not complete NFT checks"}
          /\ pc' = "fetch" /\ err' = err
     ELSE IF fromMismatchAborts(call.data.from)
     THEN Throw(Error("FromMismatch")) /\ UNCHANGED warnings
     ELSE /\ warnings' = FromWarning(warnings)
          /\ pc' = "simulate" /\ err' = err
  /\ UNCHANGED << inputVars, planVars, isOwnerResult, tokenVars, simulated, asmVars, txs >>
  /\ UNCHANGED << uiVars, discVars >>
  /\ UNCHANGED << storeVars, compVars >>

(* const balance = await nftContract.balanceOf(smartWalletAddress, id)     *)
BalanceOf1155 ==
  /\ pc = "balanceOf1155"
  /\ net' = Append(net, "balanceOf1155")
  /\ LET thrown == IF chain.bal1155Fails THEN "BalanceUnverifiable1155"
                   ELSE IF chain.bal1155 < call.data.amount THEN "InsufficientAsset1155"
                   ELSE "none" IN
     IF thrown # "none" /\ NftCatchRethrows(thrown)
     THEN /\ Throw([Error(thrown) EXCEPT !.required = << call.data.amount, 0 >>,
                                         !.available = << chain.bal1155, 0 >>])
          /\ UNCHANGED warnings
     ELSE IF thrown # "none"
     THEN /\ warnings' = warnings \cup {"Could not complete ERC-1155 checks"}
          /\ pc' = "fetch" /\ err' = err
     ELSE IF fromMismatchAborts(call.data.from)
     THEN Throw(Error("FromMismatch")) /\ UNCHANGED warnings
     ELSE /\ warnings' = FromWarning(warnings)
          /\ pc' = "simulate" /\ err' = err
  /\ UNCHANGED << inputVars, planVars, isOwnerResult, tokenVars, simulated, asmVars, txs >>
  /\ UNCHANGED << uiVars, discVars >>
  /\ UNCHANGED << storeVars, compVars >>

tokenBalanceAfterQuery_unchecked(failed, answer) == IF failed THEN MaxAmount ELSE answer

(* let tokenBalance = 0n; try { tokenBalance = await balanceOf(...) }      *)
(* catch (e) { console.warn(...) }                                         *)
tokenBalanceAfterQuery(failed, answer) == IF failed THEN 0 ELSE answer

(* tokenBalance = await tokenContract.balanceOf(smartWalletAddress),       *)
(* left at 0n when the query throws.                                       *)
Erc20Balance ==
  /\ pc = "erc20Balance"
  /\ net' = Append(net, "balanceOf")
  /\ tokenBalance' = tokenBalanceAfterQuery(chain.tokenBalFails, chain.tokenBal)
  /\ pc' = "symbol"
  /\ UNCHANGED << inputVars, planVars, isOwnerResult, tokenSymbol, tokenDecimals, decoded, simulated, asmVars,
                  warnings, err, txs >>
  /\ UNCHANGED << uiVars, discVars >>
  /\ UNCHANGED << storeVars, compVars >>

(* tokenSymbol = await tokenContract.symbol(), 'UNKNOWN' when it throws.   *)
Erc20Symbol ==
  /\ pc = "symbol"
  /\ net' = Append(net, "symbol")
  /\ \E sym \in {"TKN", "UNKNOWN"} : tokenSymbol' = sym
  /\ pc' = "decimals"
  /\ UNCHANGED << inputVars, planVars, isOwnerResult, tokenBalance, tokenDecimals, decoded, simulated, asmVars,
                  warnings, err, txs >>
  /\ UNCHANGED << uiVars, discVars >>
  /\ UNCHANGED << storeVars, compVars >>

(* tokenDecimals = await tokenContract.decimals(), 18 when it throws; then *)
(* the payload is decoded and the balance compared with the amount.        *)
Erc20Decimals ==
  /\ pc = "decimals"
  /\ net' = Append(net, "decimals")
  /\ \E d \in {0, 1, DefaultDecimals} :
       /\ tokenDecimals' = d
       /\ decoded' = IF decodeFunctionData("ERC20", "transfer", call.data)
                     THEN transferArguments(call.data) ELSE decoded
       /\ LET thrown ==
                IF ~ decodeFunctionData("ERC20", "transfer", call.data) THEN "DecodeError"
                ELSE IF balanceInsufficient(tokenBalance, call.data.amount)
                THEN "InsufficientAsset"
                ELSE "none" IN
          IF thrown # "none" /\ Erc20CatchRethrows(thrown)
          THEN /\ Throw([Error(thrown) EXCEPT
                           !.required = formatUnits(call.data.amount, d),
                           !.available = formatUnits(tokenBalance, d)])
               /\ UNCHANGED warnings
          ELSE IF thrown # "none"
          THEN /\ warnings' = warnings \cup {"Could not complete token checks"}
               /\ pc' = "fetch" /\ err' = err
          ELSE pc' = "simulate" /\ UNCHANGED << err, warnings >>
  /\ UNCHANGED << inputVars, planVars, isOwnerResult, tokenBalance, tokenSymbol, simulated, asmVars, txs >>
  /\ UNCHANGED << uiVars, discVars >>
  /\ UNCHANGED << storeVars, compVars >>

(* await provider.call({ from: smartWalletAddress, to: call.target,        *)
(* data: call.data }) of the block that classified the call.               *)
Simulate ==
  /\ pc = "simulate"
  /\ net' = Append(net, "call")
  /\ \E outcome \in {"ok", "revert"} :
       /\ simulated' = outcome
       /\ LET erc20 == Selector(call.data) = "0xa9059cbb"
              thrown == IF outcome = "ok" THEN "none"
                        ELSE IF erc20 THEN "SimulationFailedERC20" ELSE "SimulationFailed"
              rethrown == IF erc20 THEN Erc20CatchRethrows(thrown)
                          ELSE NftCatchRethrows(thrown) IN
          IF thrown # "none" /\ rethrown
          THEN Throw(Error(thrown)) /\ UNCHANGED warnings
          ELSE IF thrown # "none"
          THEN /\ warnings' = warnings \cup {"Could not complete checks"}
               /\ pc' = "fetch" /\ err' = err
          ELSE pc' = "fetch" /\ UNCHANGED << err, warnings >>
  /\ UNCHANGED << inputVars, planVars, isOwnerResult, tokenVars, asmVars, txs >>
  /\ UNCHANGED << uiVars, discVars >>
  /\ UNCHANGED << storeVars, compVars >>

FeeDatas ==
  [ maxFeePerGas : {<< >>, << 1 >>, << 2 >>}, maxPriorityFeePerGas : {<< >>, << 1 >>} ]

(* const [nonce, feeData] = await Promise.all([getTransactionCount(owner), *)
(* getFeeData()]), in both assemblers.                                     *)
FetchNonceAndFees ==
  /\ pc = "fetch"
  /\ net' = net \o << "getTransactionCount", "getFeeData" >>
  /\ \/ Throw(Error("RpcError")) /\ UNCHANGED << nonce, feeData >>
     \/ /\ \E n \in 0..MaxNonce : nonce' = n
        /\ \E fd \in FeeDatas : feeData' = fd
        /\ pc' = "estimateGas" /\ err' = err
  /\ UNCHANGED << inputVars, planVars, isOwnerResult, tokenVars, simulated, gasLimit, estimated, gasEstimate,
                  ownerBalance, warnings, txs >>
  /\ UNCHANGED << uiVars, discVars >>
  /\ UNCHANGED << storeVars, compVars >>

(* catch of provider.estimateGas in createSmartWalletTransaction: throws.  *)
singleEstimateFailure(defaultLimit) == [thrown |-> TRUE, gasLimit |-> defaultLimit]

(* catch of provider.estimateGas in createSmartWalletBatchTransaction:     *)
(* warns and keeps the default.                                            *)
batchEstimateFailure(defaultLimit) == [thrown |-> FALSE, gasLimit |-> defaultLimit]

(* let gasLimit = default; try { gasLimit = await provider.estimateGas();  *)
(* gasLimit = gasLimit * 150 / 100 } catch { ... }                         *)
EstimateGas ==
  /\ pc = "estimateGas"
  /\ net' = Append(net, "estimateGas")
  /\ \/ \E g \in GasEstimates :
          /\ estimated' = "ok"
          /\ gasEstimate' = g
          /\ gasLimit' = withBuffer(g)
          /\ pc' = "ownerBalance" /\ UNCHANGED << err, warnings >>
     \/ LET failure == IF fn = "single" THEN singleEstimateFailure(DefaultGasLimit)
                       ELSE batchEstimateFailure(DefaultBatchGasLimit) IN
        /\ estimated' = "failed"
        /\ gasEstimate' = gasEstimate
        /\ gasLimit' = failure.gasLimit
        /\ IF failure.thrown
           THEN Throw(Error("GasEstimationFailed")) /\ UNCHANGED warnings
           ELSE /\ warnings' = warnings \cup {"Gas estimation failed, using default"}
                /\ pc' = "ownerBalance" /\ err' = err
  /\ UNCHANGED << inputVars, planVars, isOwnerResult, tokenVars, simulated, nonce, feeData,
                  ownerBalance, txs >>
  /\ UNCHANGED << uiVars, discVars >>
  /\ UNCHANGED << storeVars, compVars >>

(* if (ownerBalance < maxCost) throw                                       *)
gasFundsInsufficient(signerBalance, maxCost) == signerBalance < maxCost

(* const ownerBalance = await provider.getBalance(ownerAddress); the cost  *)
(* check; return of the transaction request.                               *)
CheckFundsAndReturn ==
  /\ pc = "ownerBalance"
  /\ net' = Append(net, "getBalance")
  /\ \/ Throw(Error("RpcError")) /\ UNCHANGED << ownerBalance, txs >>
     \/ \E b \in OwnerBalances :
          LET maxCost == gasLimit * OrZero(feeData.maxFeePerGas)
              data == IF fn = "single" THEN encodeExecuteCall(call)
                      ELSE encodeExecuteBatchCall(plan) IN
          /\ ownerBalance' = b
          /\ IF gasFundsInsufficient(b, maxCost)
             THEN /\ Throw([Error("InsufficientGasFunds") EXCEPT
                              !.required = << maxCost, 0 >>, !.available = << b, 0 >>])
                  /\ txs' = txs
             ELSE /\ txs' = Append(txs,
                       [ to |-> Account, value |-> 0, data |-> data, nonce |-> nonce,
                         chainId |-> chainId, type |-> 2,
                         maxFeePerGas |-> feeData.maxFeePerGas,
                         maxPriorityFeePerGas |-> feeData.maxPriorityFeePerGas,
                         gasLimit |-> gasLimit ])
                  /\ pc' = "done" /\ err' = err
  /\ UNCHANGED << inputVars, planVars, isOwnerResult, tokenVars, simulated, nonce, feeData, gasLimit, gasEstimate,
                  estimated, warnings >>
  /\ UNCHANGED << uiVars, discVars >>
  /\ UNCHANGED << storeVars, compVars >>

useBatch_always(calls) == TRUE

(* if (calls.length === 1) single-call path, else batch path               *)
useBatch(calls) == Len(calls) # 1

(* A caller invokes createNFTTransferTransaction(provider, account,        *)
(* signer, nftContractAddress, toAddress, tokenId, chainId).               *)
BeginNFT ==
  /\ pc = "idle"
  /\ \E c \in {Nft, BASE_REGISTRAR, NAME_WRAPPER}, i \in TokenIds, id \in ChainIds :
       /\ nftArgs' = [contract |-> c, tokenId |-> i]
       /\ chainId' = id
       /\ \E f \in FactsFor(createNFTTransferCall(c, Account, Recipient, i)) : chain' = f
       /\ IF isENSContract(c)
          THEN pc' = "ensInfo" /\ UNCHANGED << fn, call >>
          ELSE /\ call' = createNFTTransferCall(c, Account, Recipient, i)
               /\ fn' = "single"
               /\ pc' = "getCode"
  /\ entry' = "createNFTTransferTransaction"
  /\ UNCHANGED << plan, ensInfo, steps, net, isOwnerResult, tokenVars, simulated, asmVars,
                  warnings, err, txs >>
  /\ UNCHANGED discVars
  /\ UNCHANGED << storeVars, compVars >>

StartNFT == ~ omOpen /\ BeginNFT /\ UNCHANGED uiVars

(* createENSTransferCalls(...) followed by the choice of the assembler.    *)
PlanAndDispatch(resolver) ==
  LET calls == createENSTransferCalls(nftArgs.contract, nftArgs.tokenId, Account,
                                      Recipient, resolver) IN
  /\ plan' = calls
  /\ steps' = getENSTransferSteps(isWrappedENS(nftArgs.contract))
  /\ IF useBatch(calls)
     THEN fn' = "batch" /\ pc' = "fetch" /\ call' = call
     ELSE fn' = "single" /\ pc' = "getCode" /\ call' = calls[1]

(* const ensInfo = await getENSInfo(provider, tokenId, isWrapped): no      *)
(* query for a wrapped name; ownerOf, registry.owner and registry.resolver *)
(* joined by Promise.all for an unwrapped one.                             *)
GetENSInfo ==
  /\ pc = "ensInfo"
  /\ IF isWrappedENS(nftArgs.contract)
     THEN /\ ensInfo' = [resolver |-> NullAddr]
          /\ PlanAndDispatch(NullAddr)
          /\ UNCHANGED << net, err >>
     ELSE /\ net' = net \o << "ownerOf", "registry.owner", "registry.resolver" >>
          /\ \/ Throw(Error("RpcError")) /\ UNCHANGED planVars
             \/ /\ chain.nftOwner # "error"
                /\ err' = err
                /\ \E r \in {ZeroAddress, Resolver} :
                     /\ ensInfo' = [resolver |-> r]
                     /\ IF r # ZeroAddress
                        THEN pc' = "ensAddr" /\ UNCHANGED << fn, call, plan, steps >>
                        ELSE PlanAndDispatch(r)
  /\ UNCHANGED << inputVars, isOwnerResult, tokenVars, simulated, asmVars, warnings, txs >>
  /\ UNCHANGED << uiVars, discVars >>
  /\ UNCHANGED << storeVars, compVars >>

(* ethRecord = await resolver.addr(namehash); a failure is only logged.    *)
GetENSAddr ==
  /\ pc = "ensAddr"
  /\ net' = Append(net, "resolver.addr")
  /\ PlanAndDispatch(ensInfo.resolver)
  /\ UNCHANGED << inputVars, ensInfo, isOwnerResult, tokenVars, simulated, asmVars,
                  warnings, err, txs >>
  /\ UNCHANGED << uiVars, discVars >>
  /\ UNCHANGED << storeVars, compVars >>

(* A caller invokes the exported createENSTransferCalls directly.          *)
CallCreateENSTransferCalls ==
  /\ pc = "idle"
  /\ \E c \in {BASE_REGISTRAR, NAME_WRAPPER}, i \in TokenIds,
        r \in {NullAddr, ZeroAddress, Resolver} :
       /\ nftArgs' = [contract |-> c, tokenId |-> i]
       /\ ensInfo' = [resolver |-> r]
       /\ plan' = createENSTransferCalls(c, i, Account, Recipient, r)
  /\ entry' = "createENSTransferCalls"
  /\ pc' = "done"
  /\ UNCHANGED << fn, call, steps, chainId, chain, net, isOwnerResult, tokenVars, simulated,
                  asmVars, warnings, err, txs >>
  /\ UNCHANGED << uiVars, discVars >>
  /\ UNCHANGED << storeVars, compVars >>

(* if (!isOwnerResult) ... any throw of the builder reaches the handler's   *)
(* catch; the statements after the await run only when it returned.        *)
builderThrew_never(e) == FALSE

builderThrew(e) == e.kind # "none"

(* The owner slots of the account: ownerAtIndex(i) of slot i.              *)
OwnerInfo(a, bytes, i) == [address |-> a, publicKey |-> bytes, index |-> i]
OwnerSlots ==
  << OwnerInfo(Signer, SignerBytes, 0), OwnerInfo(Other, OwnerBytes, 1),
     OwnerInfo(Third, ThirdBytes, 2) >>

(* Results of getSmartWalletOwners: the slots in index order, a slot whose *)
(* ownerAtIndex throws left out; each record keeps its own index.          *)
OwnerLists ==
  { << OwnerSlots[2] >>, << OwnerSlots[1], OwnerSlots[2] >>,
    << OwnerSlots[1], OwnerSlots[3] >>, << OwnerSlots[1], OwnerSlots[2], OwnerSlots[3] >> }

(* The component is rendered with its initial useState values.             *)
MountOwnerManager ==
  /\ pc = "idle"
  /\ ~ omOpen
  /\ omOpen' = TRUE
  /\ UNCHANGED << pc, pipeVars, discVars, handler, hpc, ext, uiError, isConfirmed, owners,
                  operationType, targetOwner, targetOwnerIndex, targetOwnerBytes,
                  showPinInput >>
  /\ UNCHANGED << storeVars, compVars >>

(* The component is unmounted; React discards its state.                   *)
UnmountOwnerManager ==
  /\ pc = "idle"
  /\ omOpen
  /\ omOpen' = FALSE
  /\ owners' = << >>
  /\ operationType' = "add"
  /\ targetOwner' = ""
  /\ targetOwnerIndex' = -1
  /\ targetOwnerBytes' = ""
  /\ showPinInput' = FALSE
  /\ UNCHANGED << pc, pipeVars, discVars, handler, hpc, ext, uiError, isConfirmed >>
  /\ UNCHANGED << storeVars, compVars >>

(* loadOwners: setOwners(await getSmartWalletOwners(...)), or setError     *)
(* when it throws.                                                         *)
LoadOwners ==
  /\ pc = "idle"
  /\ omOpen
  /\ \/ \E list \in OwnerLists : owners' = list /\ uiError' = "none"
     \/ owners' = owners /\ uiError' = "error"
  /\ UNCHANGED << pc, pipeVars, discVars, handler, hpc, ext, isConfirmed, omOpen,
                  operationType, targetOwner, targetOwnerIndex, targetOwnerBytes,
                  showPinInput >>
  /\ UNCHANGED << storeVars, compVars >>

(* handleAddOwner, with the address typed into the add-owner form.         *)
handleAddOwner ==
  /\ pc = "idle"
  /\ omOpen
  /\ \E newOwnerAddress \in {Other, "not-an-address"} :
       IF newOwnerAddress = "" \/ ~ isAddress(newOwnerAddress)
       THEN /\ uiError' = "error"
            /\ UNCHANGED << operationType, targetOwner, showPinInput >>
       ELSE /\ uiError' = "none"
            /\ operationType' = "add"
            /\ targetOwner' = newOwnerAddress
            /\ showPinInput' = TRUE
  /\ UNCHANGED << pc, pipeVars, discVars, handler, hpc, ext, isConfirmed, omOpen, owners,
                  targetOwnerIndex, targetOwnerBytes >>
  /\ UNCHANGED << storeVars, compVars >>

removeArguments_firstEntry(list, owner) ==
  << owner.address, list[1].index, owner.publicKey >>

(* onClick={() => handleRemoveOwner(owner.address, owner.index,            *)
(* owner.publicKey)} of the entry's button.                                *)
removeArguments(list, owner) == << owner.address, owner.index, owner.publicKey >>

removeButtonRendered_always(list, owner, signer) == TRUE

(* {owner.address.toLowerCase() !== address?.toLowerCase() &&              *)
(*  owners.length > 1 && ( <button ... /> )}                               *)
removeButtonRendered(list, owner, signer) == owner.address # signer /\ Len(list) > 1

(* The remove button is rendered for the entries other than the signer     *)
(* when the list has more than one entry; handleRemoveOwner stores its     *)
(* three arguments.                                                        *)
handleRemoveOwner ==
  /\ pc = "idle"
  /\ omOpen
  /\ \E i \in 1..Len(owners) :
       /\ removeButtonRendered(owners, owners[i], Signer)
       /\ LET args == removeArguments(owners, owners[i]) IN
          /\ targetOwner' = args[1]
          /\ targetOwnerIndex' = args[2]
          /\ targetOwnerBytes' = args[3]
  /\ uiError' = "none"
  /\ operationType' = "remove"
  /\ showPinInput' = TRUE
  /\ UNCHANGED << pc, pipeVars, discVars, handler, hpc, ext, isConfirmed, omOpen, owners >>
  /\ UNCHANGED << storeVars, compVars >>

(* onCancel={() => setShowPinInput(false)}                                 *)
PinCancel ==
  /\ pc = "idle"
  /\ omOpen
  /\ showPinInput
  /\ showPinInput' = FALSE
  /\ UNCHANGED << pc, pipeVars, discVars, handler, hpc, ext, uiError, isConfirmed, omOpen,
                  owners, operationType, targetOwner, targetOwnerIndex, targetOwnerBytes >>
  /\ UNCHANGED << storeVars, compVars >>

(* SmartWalletOwnerManager.handlePinSubmit: builds the add-owner or the    *)
(* remove-owner call from the component's state and awaits                 *)
(* createSmartWalletTransaction.                                           *)
OwnerManagerPinSubmit ==
  /\ omOpen
  /\ showPinInput
  /\ BeginSingle({ IF operationType = "add"
                   THEN createAddOwnerTransaction(Account, targetOwner)
                   ELSE createRemoveOwnerTransaction(Account, targetOwnerIndex,
                                                     targetOwnerBytes) })
  /\ handler' = "ownerManager"
  /\ hpc' = "build"
  /\ showPinInput' = FALSE
  /\ uiError' = "none"
  /\ UNCHANGED << ext, isConfirmed, omOpen, owners, operationType, targetOwner,
                  targetOwnerIndex, targetOwnerBytes >>

(* NFTManager.handlePinSubmit: awaits createNFTTransferTransaction.        *)
NftManagerPinSubmit ==
  /\ ~ omOpen
  /\ BeginNFT
  /\ handler' = "nftManager"
  /\ hpc' = "build"
  /\ UNCHANGED << ext, uiError, isConfirmed, omVars >>

(* const signedTx = await signTransactionSmart(transaction, keySlot, pin,  *)
(* environment), reached when the builder returned; the catch otherwise.   *)
HandlerSign ==
  /\ pc = "done"
  /\ hpc = "build"
  /\ IF builderThrew(err)
     THEN /\ hpc' = "end"
          /\ uiError' = "error"
          /\ ext' = ext
     ELSE /\ ext' = Append(ext, "signTransactionSmart")
          /\ \E outcome \in {"signed", "WRONG_PWD", "failed"} :
               CASE outcome = "signed" -> hpc' = "broadcast" /\ uiError' = uiError
                 [] outcome = "WRONG_PWD" ->
                      /\ hpc' = "end"
                      /\ uiError' = IF handler = "nftManager" THEN "pinError" ELSE "error"
                 [] OTHER -> hpc' = "end" /\ uiError' = "error"
  /\ UNCHANGED << pc, pipeVars, handler, isConfirmed, omVars, discVars >>
  /\ UNCHANGED << storeVars, compVars >>

(* const txResponse = await provider.broadcastTransaction(signedTx)        *)
HandlerBroadcast ==
  /\ hpc = "broadcast"
  /\ ext' = Append(ext, "broadcastTransaction")
  /\ \/ hpc' = "wait" /\ uiError' = uiError
     \/ hpc' = "end" /\ uiError' = "error"
  /\ UNCHANGED << pc, pipeVars, handler, isConfirmed, omVars, discVars >>
  /\ UNCHANGED << storeVars, compVars >>

(* await txResponse.wait(); setIsConfirmed(true)                           *)
HandlerWait ==
  /\ hpc = "wait"
  /\ hpc' = "end"
  /\ \/ isConfirmed' = TRUE /\ uiError' = uiError
     \/ isConfirmed' = FALSE /\ uiError' = "error"
  /\ UNCHANGED << pc, pipeVars, handler, ext, omVars, discVars >>
  /\ UNCHANGED << storeVars, compVars >>

(* ------------------------- account discovery -------------------------- *)
WalletA == "0xwalleta"
WalletB == "0xwalletb"

(* The aaWalletAddress fields a registry answer can carry: addresses, a    *)
(* string that is no address, and a missing field ("").                    *)
SetupEntries == {WalletA, WalletB, "not-an-address", ""}

RECURSIVE SeqsUpTo(_, _)
SeqsUpTo(S, n) ==
  IF n = 0 THEN { << >> }
  ELSE SeqsUpTo(S, n - 1)
       \cup { Append(q, x) : q \in { t \in SeqsUpTo(S, n - 1) : Len(t) = n - 1 }, x \in S }

ApiWallet(a) == [address |-> a, nonce |-> 0, version |-> "v1", exists |-> TRUE]

RECURSIVE apiWallets_unfiltered(_)
apiWallets_unfiltered(list) ==
  IF list = << >> THEN << >>
  ELSE << ApiWallet(Head(list)) >> \o apiWallets_unfiltered(Tail(list))

(* data.setups.filter(s => s.aaWalletAddress && isAddress(...)).map(...)   *)
RECURSIVE apiWallets(_)
apiWallets(list) ==
  IF list = << >> THEN << >>
  ELSE (IF Head(list) # "" /\ isAddress(Head(list))
        THEN << ApiWallet(Head(list)) >> ELSE << >>)
       \o apiWallets(Tail(list))

caughtByApiCatch_statusOnly(outcome) == outcome = "notOk"

(* try { fetch ... } catch (error) { log; fall back }: the catch covers     *)
(* the rejected fetch, the thrown status error and a failing json().       *)
caughtByApiCatch(outcome) == outcome \in {"throws", "notOk", "badJson"}

(* Object.entries(COINBASE_SMART_WALLET_FACTORIES) and version.replace     *)
Factories == << "v1", "v1_1" >>
VersionLabel(version) == IF version = "v1_1" THEN "v1.1" ELSE version

(* factory.getAddress([ownerAddress], nonce)                               *)
PredictedAddress(version, n) == "wallet_" \o version \o "_" \o ToString(n)

(* isOwner true pushes the record; the catch of the ownership query        *)
(* pushes it as well.                                                      *)
pushesWallet(answer) == answer \in {"true", "error"}

(* A caller invokes findSmartWallets(provider, signer[, maxNonce]).        *)
(* handleAutoDetect and getPrimarySmartWallet pass 3 as maxNonce.          *)
StartDiscovery ==
  /\ pc = "idle"
  /\ ~ omOpen
  /\ \E c \in {"findSmartWallets", "handleAutoDetect", "getPrimarySmartWallet"} :
       /\ caller' = c
       /\ maxNonce' = IF c = "findSmartWallets" THEN DefaultMaxNonce ELSE CallerMaxNonce
       /\ primary' = IF c = "getPrimarySmartWallet" THEN "pending" ELSE "none"
  /\ pc' = "registry"
  /\ UNCHANGED << pipeVars, uiVars, registry, setups, factoryIx, nonceIx, wallets,
                  fallback, ownerAnswer, examined, rerunVars >>
  /\ UNCHANGED << storeVars, compVars >>

EnterFallback ==
  /\ pc' = "getAddress"
  /\ factoryIx' = 1
  /\ nonceIx' = 0
  /\ wallets' = << >>

(* const response = await fetch(apiUrl); const data = await                *)
(* response.json(); return of the registry's wallets when there are any.   *)
QueryRegistry ==
  /\ pc = "registry"
  /\ \/ \E outcome \in {"throws", "notOk", "badJson"} :
          /\ registry' = outcome
          /\ setups' = setups
          /\ IF caughtByApiCatch(outcome)
             THEN EnterFallback /\ err' = err
             ELSE /\ Throw(Error("RegistryError"))
                  /\ UNCHANGED << factoryIx, nonceIx, wallets >>
     \/ /\ ~ again
        /\ registry' = "noSetups"
        /\ setups' = setups
        /\ EnterFallback
        /\ err' = err
     \/ \E list \in (IF again THEN {content} ELSE SeqsUpTo(SetupEntries, MaxSetups)) :
          LET found == apiWallets(list) IN
          IF Len(found) > 0
          THEN /\ registry' = "ok"
               /\ setups' = list
               /\ wallets' = found
               /\ pc' = "done"
               /\ UNCHANGED << factoryIx, nonceIx, err >>
          ELSE /\ registry' = "noValid"
               /\ setups' = << >>
               /\ EnterFallback
               /\ err' = err
  /\ UNCHANGED << inputVars, planVars, net, isOwnerResult, tokenVars, simulated, asmVars,
                  warnings, txs, uiVars, maxNonce, fallback, ownerAnswer, examined,
                  caller, primary, again, previous >>
  /\ content' = << >>
  /\ UNCHANGED << storeVars, compVars >>

(* nonce++ of the inner loop, then the next factory, then the return.      *)
NextCandidate ==
  IF nonceIx + 1 < maxNonce
  THEN pc' = "getAddress" /\ nonceIx' = nonceIx + 1 /\ factoryIx' = factoryIx
  ELSE IF factoryIx < Len(Factories)
  THEN pc' = "getAddress" /\ nonceIx' = 0 /\ factoryIx' = factoryIx + 1
  ELSE pc' = "done" /\ UNCHANGED << nonceIx, factoryIx >>

(* const predictedAddress = await getAddressFn([ownerAddress], nonce)      *)
FallbackGetAddress ==
  /\ pc = "getAddress"
  /\ fallback' = fallback \cup {"getAddress"}
  /\ ownerAnswer' = "none"
  /\ examined' = examined \cup { << Factories[factoryIx], nonceIx >> }
  /\ \/ NextCandidate
     \/ pc' = "discGetCode" /\ UNCHANGED << nonceIx, factoryIx >>
  /\ UNCHANGED << pipeVars, uiVars, registry, setups, maxNonce, wallets, caller, primary,
                  rerunVars >>
  /\ UNCHANGED << storeVars, compVars >>

(* const code = await provider.getCode(predictedAddress)                   *)
FallbackGetCode ==
  /\ pc = "discGetCode"
  /\ fallback' = fallback \cup {"getCode"}
  /\ \/ NextCandidate
     \/ pc' = "discIsOwner" /\ UNCHANGED << nonceIx, factoryIx >>
  /\ UNCHANGED << pipeVars, uiVars, registry, setups, maxNonce, wallets, ownerAnswer,
                  examined, caller, primary, rerunVars >>
  /\ UNCHANGED << storeVars, compVars >>

(* const isOwner = await wallet.isOwnerAddress(ownerAddress)               *)
FallbackIsOwner ==
  /\ pc = "discIsOwner"
  /\ fallback' = fallback \cup {"isOwnerAddress"}
  /\ \E answer \in {"true", "false", "error"} :
       /\ ownerAnswer' = answer
       /\ wallets' =
            IF pushesWallet(answer)
            THEN Append(wallets,
                   [ address |-> PredictedAddress(Factories[factoryIx], nonceIx),
                     nonce |-> nonceIx,
                     version |-> VersionLabel(Factories[factoryIx]),
                     exists |-> TRUE ])
            ELSE wallets
  /\ NextCandidate
  /\ UNCHANGED << pipeVars, uiVars, registry, setups, maxNonce, examined, caller, primary,
                  rerunVars >>
  /\ UNCHANGED << storeVars, compVars >>

getPrimarySmartWallet_firstFound(list) ==
  LET existingWallets == SelectSeq(list, LAMBDA w : w.exists) IN
  IF existingWallets = << >> THEN "null" ELSE existingWallets[1].address

(* existingWallets.find(v1.1 && nonce 0), then find(v1 && nonce 0), then   *)
(* existingWallets[0]; null when the list is empty.                        *)
getPrimarySmartWallet(list) ==
  LET existingWallets == SelectSeq(list, LAMBDA w : w.exists)
      newest == SelectSeq(existingWallets, LAMBDA w : w.version = "v1.1" /\ w.nonce = 0)
      oldest == SelectSeq(existingWallets, LAMBDA w : w.version = "v1" /\ w.nonce = 0)
  IN IF existingWallets = << >> THEN "null"
     ELSE IF newest # << >> THEN newest[1].address
     ELSE IF oldest # << >> THEN oldest[1].address
     ELSE existingWallets[1].address

(* getPrimarySmartWallet continues after its await of findSmartWallets.    *)
SelectPrimary ==
  /\ pc = "done"
  /\ primary = "pending"
  /\ primary' = getPrimarySmartWallet(wallets)
  /\ UNCHANGED << pc, pipeVars, uiVars, registry, setups, maxNonce, factoryIx, nonceIx,
                  wallets, fallback, ownerAnswer, examined, caller, rerunVars >>
  /\ UNCHANGED << storeVars, compVars >>

(* The user presses Auto-detect again after a run that the registry       *)
(* answered: handleAutoDetect calls findSmartWallets(provider, address, 3) *)
(* once more.  The earlier run made no chain query, so every chain answer  *)
(* of this run is one an unchanged chain can give; the registry holds the  *)
(* setups it held.                                                         *)
AutoDetectAgain ==
  /\ pc = "done"
  /\ caller = "handleAutoDetect"
  /\ registry = "ok"
  /\ ~ again
  /\ again' = TRUE
  /\ previous' = { wallets[i] : i \in 1..Len(wallets) }
  /\ content' = setups
  /\ pc' = "registry"
  /\ registry' = "none"
  /\ setups' = << >>
  /\ wallets' = << >>
  /\ UNCHANGED << pipeVars, uiVars, maxNonce, factoryIx, nonceIx, fallback, ownerAnswer,
                  examined, caller, primary >>
  /\ UNCHANGED << storeVars, compVars >>

(* ---------------------------- wallet store ---------------------------- *)
mainVars == << runVars, compVars >>

(* The chains the chain selector offers to setChain.                      *)
StoreChains ==
  { [chainId |-> 1, rpcUrl |-> "https://eth.llamarpc.com", chainName |-> "Ethereum"],
    [chainId |-> 8453, rpcUrl |-> "https://mainnet.base.org", chainName |-> "Base"] }

(* set({ address, publicKey, keySlot: keySlot || 1, isConnected: true })   *)
setWallet ==
  /\ \E k \in {0, 2} :
       /\ address' = Signer
       /\ publicKey' = "0x04pub"
       /\ keySlot' = IF k = 0 THEN 1 ELSE k
  /\ isConnected' = TRUE
  /\ storeOp' = "setWallet"
  /\ UNCHANGED << smartVars, balance, connectionMode, storeChain, mainVars >>

(* set({ chainId, rpcUrl, chainName, balance: "0" })                       *)
setChain ==
  /\ \E c \in StoreChains : storeChain' = c
  /\ balance' = "0"
  /\ storeOp' = "setChain"
  /\ UNCHANGED << cardVars, smartVars, connectionMode, mainVars >>

(* set({ balance })                                                        *)
setBalance ==
  /\ \E b \in {"0", "1.5"} : balance' = b
  /\ storeOp' = "setBalance"
  /\ UNCHANGED << cardVars, smartVars, connectionMode, storeChain, mainVars >>

(* set({ connectionMode: mode })                                           *)
setConnectionMode ==
  /\ \E mode \in {"bridge", "gateway"} : connectionMode' = mode
  /\ storeOp' = "setConnectionMode"
  /\ UNCHANGED << cardVars, smartVars, balance, storeChain, mainVars >>

(* set({ smartWalletAddress, isSmartWallet: true })                        *)
setSmartWallet ==
  /\ \E a \in {WalletA, WalletB} : smartWalletAddress' = a
  /\ isSmartWallet' = TRUE
  /\ storeOp' = "setSmartWallet"
  /\ UNCHANGED << cardVars, availableSmartWallets, activeWalletType,
                  activeSmartWalletAddress, balance, connectionMode, storeChain, mainVars >>

(* set({ smartWalletAddress: null, isSmartWallet: false })                 *)
clearSmartWallet ==
  /\ smartWalletAddress' = NullAddr
  /\ isSmartWallet' = FALSE
  /\ storeOp' = "clearSmartWallet"
  /\ UNCHANGED << cardVars, availableSmartWallets, activeWalletType,
                  activeSmartWalletAddress, balance, connectionMode, storeChain, mainVars >>

(* set({ availableSmartWallets: wallets })                                 *)
setAvailableSmartWallets ==
  /\ \E list \in SeqsUpTo({WalletA, WalletB}, MaxWallets) : availableSmartWallets' = list
  /\ storeOp' = "setAvailableSmartWallets"
  /\ UNCHANGED << cardVars, smartWalletAddress, isSmartWallet, activeWalletType,
                  activeSmartWalletAddress, balance, connectionMode, storeChain, mainVars >>

selectsSmart_typeOnly(type, a) == type = "smart"

(* if (type === 'smart' && smartWalletAddress)                             *)
selectsSmart(type, a) == type = "smart" /\ a # NullAddr

(* The fields setActiveWallet(type, a) writes.                             *)
ActiveWalletSet(type, a) ==
  IF selectsSmart(type, a)
  THEN /\ activeWalletType' = type
       /\ activeSmartWalletAddress' = a
       /\ smartWalletAddress' = a
       /\ isSmartWallet' = TRUE
  ELSE /\ activeWalletType' = "burner"
       /\ activeSmartWalletAddress' = NullAddr
       /\ smartWalletAddress' = NullAddr
       /\ isSmartWallet' = FALSE

(* setActiveWallet(type, smartWalletAddress?): the address may be absent.  *)
setActiveWallet ==
  /\ \E type \in {"burner", "smart"}, a \in {NullAddr, WalletA, WalletB} :
       ActiveWalletSet(type, a)
  /\ storeOp' = "setActiveWallet"
  /\ UNCHANGED << cardVars, availableSmartWallets, balance, connectionMode, storeChain,
                  mainVars >>

disconnect_keepsBalance ==
  /\ address' = NullAddr
  /\ publicKey' = NullAddr
  /\ keySlot' = 0
  /\ isConnected' = FALSE
  /\ smartWalletAddress' = NullAddr
  /\ isSmartWallet' = FALSE
  /\ availableSmartWallets' = << >>
  /\ activeWalletType' = "burner"
  /\ activeSmartWalletAddress' = NullAddr
  /\ storeOp' = "disconnect"
  /\ UNCHANGED << balance, connectionMode, storeChain, mainVars >>

(* disconnect: every wallet field back to its initial value; chainId,     *)
(* rpcUrl, chainName and connectionMode are not in the object it sets.    *)
disconnect ==
  /\ address' = NullAddr
  /\ publicKey' = NullAddr
  /\ keySlot' = 0
  /\ isConnected' = FALSE
  /\ balance' = "0"
  /\ smartWalletAddress' = NullAddr
  /\ isSmartWallet' = FALSE
  /\ availableSmartWallets' = << >>
  /\ activeWalletType' = "burner"
  /\ activeSmartWalletAddress' = NullAddr
  /\ storeOp' = "disconnect"
  /\ UNCHANGED << connectionMode, storeChain, mainVars >>

StoreNext ==
  \/ setWallet
  \/ setChain
  \/ setBalance
  \/ setConnectionMode
  \/ setSmartWallet
  \/ clearSmartWallet
  \/ setAvailableSmartWallets
  \/ setActiveWallet
  \/ disconnect

StoreSpec == Init /\ [][StoreNext]_vars

(* ------------------- SmartWalletConfig, WalletSelector ------------------ *)
(* Which of the component's four returns is rendered.                      *)
configView ==
  IF ~ showConfig THEN "summary"
  ELSE IF showWalletsList /\ foundWallets # << >> THEN "list"
  ELSE "form"

(* What findSmartWallets can return: the addresses found, none twice.      *)
FoundLists ==
  { list \in SeqsUpTo({WalletA, WalletB}, MaxWallets) :
      \A i, j \in 1..Len(list) : list[i] = list[j] => i = j }

(* useEffect on [smartWalletAddress]: a new active address is copied into  *)
(* the input field.                                                        *)
inputAfterEffect(input, active, newActive) ==
  IF newActive # NullAddr /\ newActive # active THEN newActive ELSE input

cardAndChain == << cardVars, balance, connectionMode, storeChain >>

(* onClick={() => setShowConfig(true)} of the two summary views.           *)
OpenConfig ==
  /\ configView = "summary"
  /\ showConfig' = TRUE
  /\ UNCHANGED << inputAddress, isChecking, isAutoDetecting, foundWallets, showWalletsList,
                  checkedAddress, checkAnswer >>
  /\ UNCHANGED << storeVars, exceptCfg >>

(* onClick={() => setShowConfig(false)} of the form.                       *)
CloseConfig ==
  /\ configView = "form"
  /\ showConfig' = FALSE
  /\ UNCHANGED << inputAddress, isChecking, isAutoDetecting, foundWallets, showWalletsList,
                  checkedAddress, checkAnswer >>
  /\ UNCHANGED << storeVars, exceptCfg >>

(* onClick={() => setShowWalletsList(false)} of the list view.             *)
HideWalletsList ==
  /\ configView = "list"
  /\ showWalletsList' = FALSE
  /\ UNCHANGED << inputAddress, isChecking, isAutoDetecting, showConfig, foundWallets,
                  checkedAddress, checkAnswer >>
  /\ UNCHANGED << storeVars, exceptCfg >>

(* onChange of the address field.                                          *)
TypeAddress ==
  /\ configView = "form"
  /\ \E text \in {WalletA, WalletB, "not-an-address"} : inputAddress' = text
  /\ UNCHANGED << isChecking, isAutoDetecting, showConfig, foundWallets, showWalletsList,
                  checkedAddress, checkAnswer >>
  /\ UNCHANGED << storeVars, exceptCfg >>

(* handleAutoDetect up to await findSmartWallets; the button is disabled   *)
(* without an address or while a search runs.                              *)
handleAutoDetect ==
  /\ configView = "form"
  /\ address # NullAddr
  /\ ~ isAutoDetecting
  /\ isAutoDetecting' = TRUE
  /\ UNCHANGED << inputAddress, isChecking, showConfig, foundWallets, showWalletsList,
                  checkedAddress, checkAnswer >>
  /\ UNCHANGED << storeVars, exceptCfg >>

(* findSmartWallets returned or threw: the three branches on               *)
(* wallets.length, the catch, the finally.                                 *)
AutoDetectAnswer ==
  /\ isAutoDetecting
  /\ isAutoDetecting' = FALSE
  /\ \/ \E found \in FoundLists :
          CASE Len(found) = 0 ->
                 /\ availableSmartWallets' = << >>
                 /\ storeOp' = "setAvailableSmartWallets"
                 /\ UNCHANGED << smartWalletAddress, isSmartWallet, activeWalletType,
                                 activeSmartWalletAddress, inputAddress, foundWallets,
                                 showWalletsList >>
            [] Len(found) = 1 ->
                 /\ inputAddress' = found[1]
                 /\ availableSmartWallets' = << found[1] >>
                 /\ ActiveWalletSet("smart", found[1])
                 /\ storeOp' = "setSmartWallet"
                 /\ UNCHANGED << foundWallets, showWalletsList >>
            [] OTHER ->
                 /\ foundWallets' = found
                 /\ availableSmartWallets' = found
                 /\ showWalletsList' = TRUE
                 /\ storeOp' = "setAvailableSmartWallets"
                 /\ UNCHANGED << smartWalletAddress, isSmartWallet, activeWalletType,
                                 activeSmartWalletAddress, inputAddress >>
     \/ UNCHANGED << smartVars, storeOp, inputAddress, foundWallets, showWalletsList >>
  /\ UNCHANGED << isChecking, showConfig, checkedAddress, checkAnswer >>
  /\ UNCHANGED << cardAndChain, exceptCfg >>

(* handleCheckOwnership up to await isOwner(provider, inputAddress,        *)
(* address); the button is disabled for an invalid address or while a      *)
(* check runs, the guard returns without a connected card.                 *)
handleCheckOwnership ==
  /\ configView = "form"
  /\ inputAddress # "" /\ isAddress(inputAddress)
  /\ ~ isChecking
  /\ address # NullAddr
  /\ isChecking' = TRUE
  /\ checkedAddress' = inputAddress
  /\ UNCHANGED << inputAddress, isAutoDetecting, showConfig, foundWallets, showWalletsList,
                  checkAnswer >>
  /\ UNCHANGED << storeVars, exceptCfg >>

ownerCheckPassed_always(answer) == TRUE

(* if (isOwnerResult)                                                      *)
ownerCheckPassed(answer) == answer = "true"

(* isOwner returned true or false (false also when its query threw), or   *)
(* the try block threw: the two branches, the catch, the finally.          *)
CheckOwnershipAnswer ==
  /\ isChecking
  /\ isChecking' = FALSE
  /\ \E answer \in {"true", "false", "error"} :
       /\ checkAnswer' = answer
       /\ IF ownerCheckPassed(answer)
          THEN /\ availableSmartWallets' = << checkedAddress >>
               /\ ActiveWalletSet("smart", checkedAddress)
               /\ storeOp' = "setSmartWallet"
               /\ inputAddress' = inputAfterEffect(inputAddress, activeSmartWalletAddress,
                                                   checkedAddress)
          ELSE UNCHANGED << smartVars, storeOp, inputAddress >>
  /\ UNCHANGED << isAutoDetecting, showConfig, foundWallets, showWalletsList, checkedAddress >>
  /\ UNCHANGED << cardAndChain, exceptCfg >>

(* handleClearSmartWallet, the Remove button shown while a smart wallet is *)
(* active.                                                                 *)
handleClearSmartWallet ==
  /\ configView = "form"
  /\ activeWalletType = "smart"
  /\ ActiveWalletSet("burner", NullAddr)
  /\ availableSmartWallets' = << >>
  /\ storeOp' = "setAvailableSmartWallets"
  /\ inputAddress' = ""
  /\ foundWallets' = << >>
  /\ showWalletsList' = FALSE
  /\ UNCHANGED << isChecking, isAutoDetecting, showConfig, checkedAddress, checkAnswer >>
  /\ UNCHANGED << cardAndChain, exceptCfg >>

(* handleSelectWallet(wallet.address) of an entry of the list view.        *)
handleSelectWallet ==
  /\ configView = "list"
  /\ \E i \in 1..Len(foundWallets) :
       /\ inputAddress' = foundWallets[i]
       /\ ActiveWalletSet("smart", foundWallets[i])
  /\ storeOp' = "setSmartWallet"
  /\ showWalletsList' = FALSE
  /\ showConfig' = FALSE
  /\ UNCHANGED << isChecking, isAutoDetecting, foundWallets, checkedAddress, checkAnswer >>
  /\ UNCHANGED << availableSmartWallets, cardAndChain, exceptCfg >>

(* WalletSelector.handleWalletChange: the selector is rendered while       *)
(* availableSmartWallets is not empty and offers the card and every entry. *)
handleWalletChange ==
  /\ availableSmartWallets # << >>
  /\ \E option \in {NullAddr} \cup { availableSmartWallets[i] :
                                      i \in 1..Len(availableSmartWallets) } :
       /\ ActiveWalletSet(IF option = NullAddr THEN "burner" ELSE "smart", option)
       /\ inputAddress' = inputAfterEffect(inputAddress, activeSmartWalletAddress, option)
  /\ storeOp' = "setActiveWallet"
  /\ UNCHANGED << isChecking, isAutoDetecting, showConfig, foundWallets, showWalletsList,
                  checkedAddress, checkAnswer >>
  /\ UNCHANGED << availableSmartWallets, cardAndChain, exceptCfg >>

ConfigNext ==
  \/ setWallet
  \/ disconnect
  \/ OpenConfig
  \/ CloseConfig
  \/ HideWalletsList
  \/ TypeAddress
  \/ handleAutoDetect
  \/ AutoDetectAnswer
  \/ handleCheckOwnership
  \/ CheckOwnershipAnswer
  \/ handleClearSmartWallet
  \/ handleSelectWallet
  \/ handleWalletChange

ConfigSpec == Init /\ [][ConfigNext]_vars

(* ----------------------------- NFTManager ------------------------------ *)
NoRun == [stage |-> "none", nft |-> 0]
InFlight == { r \in 1..MaxRuns : runs[r].stage # "none" }

(* openTransferModal(nft) of a saved NFT.                                  *)
openTransferModal ==
  /\ selectedNFT = 0
  /\ ~ nftIsConfirmed
  /\ \E nft \in savedNFTs : selectedNFT' = nft
  /\ UNCHANGED << isSending, nftShowPinInput, pinError, nftError, nftIsConfirmed, savedNFTs,
                  runs, lastOutcome >>
  /\ UNCHANGED exceptNft

(* The Send NFT button, disabled={!recipient || isSending}, with a valid   *)
(* recipient typed in.                                                     *)
SendNFTClick ==
  /\ selectedNFT # 0
  /\ ~ nftIsConfirmed
  /\ ~ isSending
  /\ nftShowPinInput' = TRUE
  /\ nftError' = "none"
  /\ UNCHANGED << isSending, pinError, nftIsConfirmed, savedNFTs, selectedNFT, runs,
                  lastOutcome >>
  /\ UNCHANGED exceptNft

(* onCancel of the PIN dialog.                                             *)
NftPinCancel ==
  /\ nftShowPinInput
  /\ nftShowPinInput' = FALSE
  /\ pinError' = "none"
  /\ UNCHANGED << isSending, nftError, nftIsConfirmed, savedNFTs, selectedNFT, runs,
                  lastOutcome >>
  /\ UNCHANGED exceptNft

(* if (!selectedNFT || !recipient || !address) return; isSending is not    *)
(* among the conditions.                                                   *)
submitAccepted(selected) == selected # 0

(* onSubmit={handlePinSubmit} of the visible PIN dialog: the statements up *)
(* to the first await.                                                     *)
handlePinSubmit ==
  /\ nftShowPinInput
  /\ submitAccepted(selectedNFT)
  /\ \E r \in 1..MaxRuns :
       /\ runs[r].stage = "none"
       /\ \A q \in 1..(r - 1) : runs[q].stage # "none"
       /\ runs' = [runs EXCEPT ![r] = [stage |-> "build", nft |-> selectedNFT]]
  /\ pinError' = "none"
  /\ isSending' = TRUE
  /\ UNCHANGED << nftShowPinInput, nftError, nftIsConfirmed, savedNFTs, selectedNFT,
                  lastOutcome >>
  /\ UNCHANGED exceptNft

pinRejected_never(message) == FALSE

(* err.message?.includes("WRONG_PWD") || err.message?.includes("password") *)
pinRejected(message) == message \in {"WRONG_PWD", "password"}

(* The catch and the finally of handlePinSubmit for the call in slot r.    *)
RunFails(r, message) ==
  /\ IF pinRejected(message)
     THEN /\ pinError' = "set"
          /\ UNCHANGED << nftError, nftShowPinInput >>
     ELSE /\ nftError' = "error"
          /\ nftShowPinInput' = FALSE
          /\ UNCHANGED pinError
  /\ isSending' = FALSE
  /\ runs' = [runs EXCEPT ![r] = NoRun]
  /\ lastOutcome' = message
  /\ UNCHANGED << nftIsConfirmed, savedNFTs, selectedNFT >>

RunGoesOn(r, stage) ==
  /\ runs' = [runs EXCEPT ![r].stage = stage]
  /\ UNCHANGED << isSending, pinError, nftError, nftIsConfirmed, savedNFTs, selectedNFT,
                  lastOutcome >>

(* createNFTTransferTransaction returned or threw; without a smart wallet  *)
(* the else branch throws.                                                 *)
NftBuildDone ==
  /\ \E r \in 1..MaxRuns :
       /\ runs[r].stage = "build"
       /\ \/ RunGoesOn(r, "sign") /\ UNCHANGED nftShowPinInput
          \/ RunFails(r, "failed")
  /\ UNCHANGED exceptNft

(* signTransactionSmart returned, and setShowPinInput(false); or it threw. *)
NftSignDone ==
  /\ \E r \in 1..MaxRuns :
       /\ runs[r].stage = "sign"
       /\ \/ RunGoesOn(r, "broadcast") /\ nftShowPinInput' = FALSE
          \/ \E message \in {"WRONG_PWD", "failed"} : RunFails(r, message)
  /\ UNCHANGED exceptNft

(* provider.broadcastTransaction returned or threw.                        *)
NftBroadcastDone ==
  /\ \E r \in 1..MaxRuns :
       /\ runs[r].stage = "broadcast"
       /\ \/ RunGoesOn(r, "wait") /\ UNCHANGED nftShowPinInput
          \/ RunFails(r, "failed")
  /\ UNCHANGED exceptNft

(* txResponse.wait() returned: setIsConfirmed(true), removeNFT(...), the   *)
(* finally; or it threw.                                                   *)
NftWaitDone ==
  /\ \E r \in 1..MaxRuns :
       /\ runs[r].stage = "wait"
       /\ \/ /\ nftIsConfirmed' = TRUE
             /\ savedNFTs' = savedNFTs \ {runs[r].nft}
             /\ isSending' = FALSE
             /\ runs' = [runs EXCEPT ![r] = NoRun]
             /\ lastOutcome' = "confirmed"
             /\ UNCHANGED << nftShowPinInput, pinError, nftError, selectedNFT >>
          \/ RunFails(r, "failed")
  /\ UNCHANGED exceptNft

(* handleReturnToNFTManager of the success dialog.                         *)
handleReturnToNFTManager ==
  /\ nftIsConfirmed
  /\ selectedNFT # 0
  /\ nftIsConfirmed' = FALSE
  /\ selectedNFT' = 0
  /\ UNCHANGED << isSending, nftShowPinInput, pinError, nftError, savedNFTs, runs,
                  lastOutcome >>
  /\ UNCHANGED exceptNft

NftNext ==
  \/ openTransferModal
  \/ SendNFTClick
  \/ NftPinCancel
  \/ handlePinSubmit
  \/ NftBuildDone
  \/ NftSignDone
  \/ NftBroadcastDone
  \/ NftWaitDone
  \/ handleReturnToNFTManager

NftSpec == Init /\ [][NftNext]_vars

(* --------------------------- AddCustomToken ---------------------------- *)
NoToken == [address |-> "", chainId |-> 0]
CustomToken(a, c) == [address |-> a, chainId |-> c]
TokenAddresses == { Token, "0xtoken2" }

(* The chainId the component reads from the store when it renders.         *)
currentChainId == storeChain.chainId

(* customTokens.filter(t => t.address.toLowerCase() !== address...)        *)
withoutToken(list, a) == SelectSeq(list, LAMBDA t : t.address # a)

(* validateToken: the contract answered name, symbol and decimals and the  *)
(* token record is built with the store's chainId; or a query threw.       *)
validateToken ==
  /\ \E tokenAddress \in TokenAddresses :
       \/ tokenInfo' = CustomToken(tokenAddress, currentChainId)
       \/ tokenInfo' = NoToken
  /\ UNCHANGED << customTokens, localStorage >>
  /\ UNCHANGED << storeVars, exceptTok >>

(* addToken: nothing without tokenInfo; an address already in customTokens *)
(* is refused; otherwise the extended list becomes the state and is saved  *)
(* under the key of the store's chainId.                                   *)
addToken ==
  /\ tokenInfo # NoToken
  /\ IF \E i \in 1..Len(customTokens) : customTokens[i].address = tokenInfo.address
     THEN UNCHANGED << customTokens, tokenInfo, localStorage >>
     ELSE LET updated == Append(customTokens, tokenInfo) IN
          /\ customTokens' = updated
          /\ localStorage' = [localStorage EXCEPT ![currentChainId] = updated]
          /\ tokenInfo' = NoToken
  /\ UNCHANGED << storeVars, exceptTok >>

(* removeToken(address): the filtered list becomes the state and is saved  *)
(* under the key of the store's chainId.                                   *)
removeToken ==
  /\ \E i \in 1..Len(customTokens) :
       LET updated == withoutToken(customTokens, customTokens[i].address) IN
       /\ customTokens' = updated
       /\ localStorage' = [localStorage EXCEPT ![currentChainId] = updated]
  /\ UNCHANGED tokenInfo
  /\ UNCHANGED << storeVars, exceptTok >>

(* The component is mounted again (page reload): the useState initializer  *)
(* reads the list stored under the key of the store's chainId.             *)
MountAddCustomToken ==
  /\ customTokens' = localStorage[currentChainId]
  /\ tokenInfo' = NoToken
  /\ UNCHANGED localStorage
  /\ UNCHANGED << storeVars, exceptTok >>

TokenNext ==
  \/ setChain
  \/ validateToken
  \/ addToken
  \/ removeToken
  \/ MountAddCustomToken

TokenSpec == Init /\ [][TokenNext]_vars

(* ------------------------ getSmartWalletOwners ------------------------- *)
(* What ownerAtIndex can return: a 32-byte padded address, a 20-byte       *)
(* address, a 64-byte public key, and the empty bytes of a vacated slot.   *)
PasskeyBytes == "0xpasskey64bytes"
EmptyBytes == "0x"
SlotBytes == { SignerBytes, Other, PasskeyBytes, EmptyBytes }

(* hexWithoutPrefix.length                                                 *)
hexLength(ownerBytes) ==
  CASE ownerBytes \in {SignerBytes, OwnerBytes, ThirdBytes} -> 64
    [] ownerBytes \in {Signer, Other, Third} -> 40
    [] ownerBytes = PasskeyBytes -> 128
    [] OTHER -> 0

(* '0x' + hexWithoutPrefix.slice(-40)                                      *)
last40(ownerBytes) ==
  CASE ownerBytes = SignerBytes -> Signer
    [] ownerBytes = OwnerBytes -> Other
    [] ownerBytes = ThirdBytes -> Third
    [] ownerBytes \in {Signer, Other, Third} -> ownerBytes
    [] ownerBytes = PasskeyBytes -> "0xpasskeytail"
    [] OTHER -> "0x"

(* ethers.getAddress throws unless it is given 20 bytes of hex.            *)
getAddressThrows(hex) == hex = "0x"

(* The three branches on hexWithoutPrefix.length that compute ownerAddress.*)
ownerAddressHex(ownerBytes) ==
  IF hexLength(ownerBytes) = 64 THEN last40(ownerBytes)
  ELSE IF hexLength(ownerBytes) = 40 THEN ownerBytes
  ELSE last40(ownerBytes)

ownerEntry_position(sofar, ownerBytes, i) ==
  OwnerInfo(ownerAddressHex(ownerBytes), ownerBytes, Len(sofar))

(* owners.push({ address: ownerAddress, publicKey: publicKey, index: i })  *)
ownerEntry(sofar, ownerBytes, i) == OwnerInfo(ownerAddressHex(ownerBytes), ownerBytes, i)

ListIdle ==
  /\ listPc' = "idle" /\ ownerCount' = 0 /\ slot' = 0 /\ listed' = << >>
  /\ slotAnswers' = << >>

(* getSmartWalletOwners is called: await wallet.ownerCount() is pending.   *)
StartListing ==
  /\ listPc = "idle"
  /\ listPc' = "ownerCount"
  /\ UNCHANGED << ownerCount, slot, listed, slotAnswers >>
  /\ UNCHANGED exceptList

(* ownerCount() answers or throws; the outer catch rethrows; with a count  *)
(* of 0 the loop body never runs and owners is returned.                   *)
OwnerCountAnswer ==
  /\ listPc = "ownerCount"
  /\ \/ /\ listPc' = "failed"
        /\ UNCHANGED ownerCount
     \/ \E n \in 0..MaxOwnerCount :
          /\ ownerCount' = n
          /\ listPc' = IF 0 < n THEN "ownerAtIndex" ELSE "returned"
  /\ UNCHANGED << slot, listed, slotAnswers >>
  /\ UNCHANGED exceptList

(* One iteration of the loop: ownerAtIndex(i) answers or throws, the bytes *)
(* are parsed, the entry is pushed; the catch of the iteration only logs.  *)
OwnerAtIndexAnswer ==
  /\ listPc = "ownerAtIndex"
  /\ \E answer \in SlotBytes \cup {"error"} :
       /\ slotAnswers' = Append(slotAnswers, answer)
       /\ listed' = IF answer = "error" \/ getAddressThrows(ownerAddressHex(answer))
                    THEN listed
                    ELSE Append(listed, ownerEntry(listed, answer, slot))
  /\ slot' = slot + 1
  /\ listPc' = IF slot + 1 < ownerCount THEN "ownerAtIndex" ELSE "returned"
  /\ UNCHANGED ownerCount
  /\ UNCHANGED exceptList

(* The caller has the result; the next call starts from scratch.           *)
ListingReturn ==
  /\ listPc \in {"returned", "failed"}
  /\ ListIdle
  /\ UNCHANGED exceptList

ListNext ==
  \/ StartListing
  \/ OwnerCountAnswer
  \/ OwnerAtIndexAnswer
  \/ ListingReturn

ListSpec == Init /\ [][ListNext]_vars

(* The positions at which the run awaits the registry or the provider.    *)
AwaitingNetwork ==
  { "registry", "getAddress", "discGetCode", "discIsOwner", "getCode", "isOwner", "ownerOf",
    "balanceOf1155", "erc20Balance", "symbol", "decimals", "simulate", "fetch",
    "estimateGas", "ownerBalance", "ensInfo", "ensAddr" }

(* The awaited promise never settles: fetch(apiUrl) and the provider calls *)
(* are awaited without a timeout, an AbortSignal or a race with a timer.   *)
NoResponse ==
  /\ pc \in AwaitingNetwork
  /\ pc' = "hung"
  /\ UNCHANGED << pipeVars, uiVars, discVars >>
  /\ UNCHANGED << storeVars, compVars >>

(* The run has returned or thrown; the caller may start the next one.      *)
Return ==
  /\ pc = "done"
  /\ hpc \in {"none", "end"}
  /\ primary # "pending"
  /\ pc' = "idle"
  /\ fn' = "none"
  /\ entry' = "none"
  /\ nftArgs' = NoNftArgs
  /\ call' = NoCall
  /\ plan' = << >>
  /\ chainId' = 1
  /\ chain' = DefaultFacts
  /\ net' = << >>
  /\ isOwnerResult' = "unset"
  /\ tokenBalance' = 0
  /\ tokenSymbol' = "UNKNOWN"
  /\ tokenDecimals' = DefaultDecimals
  /\ decoded' = << >>
  /\ simulated' = "no"
  /\ nonce' = 0
  /\ feeData' = NoFeeData
  /\ gasLimit' = 0
  /\ estimated' = "no"
  /\ gasEstimate' = 0
  /\ steps' = << >>
  /\ ownerBalance' = 0
  /\ warnings' = {}
  /\ err' = NoErr
  /\ txs' = << >>
  /\ ensInfo' = [resolver |-> NullAddr]
  /\ handler' = "none"
  /\ hpc' = "none"
  /\ ext' = << >>
  /\ uiError' = "none"
  /\ isConfirmed' = FALSE
  /\ UNCHANGED omVars
  /\ registry' = "none"
  /\ setups' = << >>
  /\ maxNonce' = 0
  /\ factoryIx' = 1
  /\ nonceIx' = 0
  /\ wallets' = << >>
  /\ fallback' = {}
  /\ ownerAnswer' = "none"
  /\ examined' = {}
  /\ caller' = "none"
  /\ primary' = "none"
  /\ again' = FALSE
  /\ previous' = {}
  /\ content' = << >>
  /\ UNCHANGED << storeVars, compVars >>

Next ==
  \/ StartSingle
  \/ StartNFT
  \/ CallCreateENSTransferCalls
  \/ GetENSInfo
  \/ GetENSAddr
  \/ GetCode
  \/ IsOwner
  \/ Preflight
  \/ OwnerOf
  \/ BalanceOf1155
  \/ Erc20Balance
  \/ Erc20Symbol
  \/ Erc20Decimals
  \/ Simulate
  \/ FetchNonceAndFees
  \/ EstimateGas
  \/ CheckFundsAndReturn
  \/ MountOwnerManager
  \/ UnmountOwnerManager
  \/ LoadOwners
  \/ handleAddOwner
  \/ handleRemoveOwner
  \/ PinCancel
  \/ OwnerManagerPinSubmit
  \/ NftManagerPinSubmit
  \/ HandlerSign
  \/ HandlerBroadcast
  \/ HandlerWait
  \/ StartDiscovery
  \/ QueryRegistry
  \/ FallbackGetAddress
  \/ FallbackGetCode
  \/ FallbackIsOwner
  \/ SelectPrimary
  \/ AutoDetectAgain
  \/ NoResponse
  \/ Return

Spec == Init /\ [][Next]_vars

(* The event loop runs every continuation whose promise has settled.       *)
LiveSpec == Spec /\ WF_vars(Next)

(* ------------------------------ claims --------------------------------- *)
Issued(request) == \E i \in 1..Len(net) : net[i] = request

Pipeline == entry \in {"createSmartWalletTransaction", "createNFTTransferTransaction"}

(* C1: in a single-call run, once the ownership query has reported that    *)
(* the signer is not an owner, the run has ended with the not-owner error, *)
(* no simulation, nonce/fee fetch, gas estimation or signer-balance query  *)
(* was issued and no transaction was returned.                             *)
C1_NotOwnerShortCircuit ==
  (fn = "single" /\ isOwnerResult = "false") =>
     /\ pc = "done"
     /\ err.kind = "NotOwner"
     /\ ~ Issued("call")
     /\ ~ Issued("getTransactionCount")
     /\ ~ Issued("getFeeData")
     /\ ~ Issued("estimateGas")
     /\ ~ Issued("getBalance")
     /\ txs = << >>

C1_Witness ==
  /\ entry = "createSmartWalletTransaction"
  /\ isOwnerResult = "false"
  /\ err.kind = "NotOwner"

(* C2: for every intent, when the account has no bytecode the only network *)
(* request of the run is the bytecode query, and the run ends with the     *)
(* account-not-deployed error that names the chain.                        *)
C2_NotDeployedStopsEveryIntent ==
  (Pipeline /\ ~ chain.deployed) =>
     /\ \A i \in 1..Len(net) : net[i] = "getCode"
     /\ Len(net) <= 1
     /\ txs = << >>
     /\ (pc = "done" /\ err.kind # "RpcError") =>
          /\ err.kind = "AccountNotDeployed"
          /\ err.chain = chainName(chainId)
          /\ \A other \in ChainIds \ {chainId} : err.chain # chainName(other)

(* C3: a batch transaction for an unwrapped ENS transfer is returned only  *)
(* if the signer was confirmed as an owner earlier in the same run.        *)
C3_BatchRequiresOwnership ==
  (entry = "createNFTTransferTransaction" /\ fn = "batch" /\ txs # << >>) =>
     isOwnerResult = "true"

(* C4: a fungible transfer whose amount exceeds the account's token        *)
(* balance never reaches gas estimation and returns nothing; once the      *)
(* balance check has run, the run has failed with the insufficient-asset   *)
(* error that reports the required and the available amount.               *)
C4_InsufficientTokenBalance ==
  ( /\ fn = "single"
    /\ call.target # Account
    /\ decodeFunctionData("ERC20", "transfer", call.data)
    /\ call.data.amount > chain.tokenBal ) =>
     /\ ~ Issued("estimateGas")
     /\ txs = << >>
     /\ Issued("decimals") =>
          /\ pc = "done"
          /\ err.kind = "InsufficientAsset"
          /\ err.required = formatUnits(call.data.amount, tokenDecimals)
          /\ err.available = formatUnits(chain.tokenBal, tokenDecimals)

C4_Witness ==
  /\ call.data.sig = "transfer"
  /\ call.data.amount = 1
  /\ chain.tokenBal = 0
  /\ ~ chain.tokenBalFails
  /\ err.kind = "InsufficientAsset"
  /\ err.required = << 0, 1 >>
  /\ err.available = << 0, 0 >>

(* C5: when gas estimation throws, on the single-call and on the batch     *)
(* path, the run ends with the gas-estimation-failed error and returns no  *)
(* transaction.                                                            *)
C5_NoDefaultGasLimit ==
  (Pipeline /\ estimated = "failed") =>
     /\ pc = "done"
     /\ err.kind = "GasEstimationFailed"
     /\ txs = << >>

(* C6: when the ENS plan has more than one call, the run returns at most   *)
(* one transaction, and its payload is one executeBatch encoding of all    *)
(* the plan's calls in plan order; a run that ends without error has       *)
(* returned exactly one.                                                   *)
C6_PlanIsOneBatch ==
  (entry = "createNFTTransferTransaction" /\ Len(plan) > 1) =>
     /\ Len(txs) <= 1
     /\ \A i \in 1..Len(txs) :
          /\ txs[i].data.fn = "executeBatch"
          /\ Len(txs[i].data.calls) = Len(plan)
          /\ \A k \in 1..Len(plan) : txs[i].data.calls[k] = plan[k]
     /\ (pc = "done" /\ err.kind = "none") => Len(txs) = 1

C6_Witness ==
  /\ entry = "createNFTTransferTransaction"
  /\ Len(plan) = 3
  /\ Len(txs) = 1

(* C7: for an unwrapped name the plan is [setAddr at the resolver],        *)
(* setOwner at the registry, token transfer at the registrar, in this      *)
(* order; setAddr is present exactly when a resolver is registered and is  *)
(* not the zero address; the token transfer is always the last call.       *)
C7_UnwrappedPlanOrder ==
  (plan # << >> /\ nftArgs.contract = BASE_REGISTRAR) =>
     LET hasResolver == ensInfo.resolver # NullAddr /\ ensInfo.resolver # ZeroAddress
         n == Len(plan) IN
     /\ n = (IF hasResolver THEN 3 ELSE 2)
     /\ plan[n].target = BASE_REGISTRAR
     /\ plan[n].data.sig = "safeTransferFrom721"
     /\ plan[n].data.from = Account
     /\ plan[n].data.to = Recipient
     /\ plan[n].data.id = nftArgs.tokenId
     /\ plan[n - 1].target = REGISTRY
     /\ plan[n - 1].data.sig = "setOwner"
     /\ plan[n - 1].data.to = Recipient
     /\ hasResolver =>
          /\ plan[1].target = ensInfo.resolver
          /\ plan[1].data.sig = "setAddr"
          /\ plan[1].data.to = Recipient
     /\ \A i \in 1..n : plan[i].data.sig = "setAddr" => (hasResolver /\ i = 1)

C7_Witness ==
  /\ nftArgs.contract = BASE_REGISTRAR
  /\ ensInfo.resolver = Resolver
  /\ Len(plan) = 3

(* C8: once a preflight simulation has reverted, for a fungible, a         *)
(* non-fungible or a multi-token transfer, the run has ended with the      *)
(* simulation-failed error; no nonce/fee fetch or gas estimation was       *)
(* issued and no transaction was returned.                                 *)
C8_SimulationRevertBlocks ==
  simulated = "revert" =>
     /\ pc = "done"
     /\ err.kind \in {"SimulationFailed", "SimulationFailedERC20"}
     /\ ~ Issued("getTransactionCount")
     /\ ~ Issued("getFeeData")
     /\ ~ Issued("estimateGas")
     /\ txs = << >>

C8_Witness ==
  /\ simulated = "revert"
  /\ Selector(call.data) = "0x23b872dd"
  /\ err.kind = "SimulationFailed"

(* C9: a non-fungible transfer (transferFrom or safeTransferFrom) of a     *)
(* token that the account does not own issues no simulation and no gas     *)
(* estimation, returns nothing and ends with an error.                     *)
C9_NftNotOwnedIsFatal ==
  ( /\ fn = "single"
    /\ call.target # Account
    /\ Selector(call.data) \in {"0x23b872dd", "0x42842e0e"}
    /\ call.data.ok
    /\ chain.nftOwner = Other ) =>
     /\ ~ Issued("call")
     /\ ~ Issued("estimateGas")
     /\ txs = << >>
     /\ pc = "done" => err.kind # "none"

(* C10: a native transfer whose value exceeds the account's native balance *)
(* is rejected with the insufficient-asset error before gas estimation.    *)
C10_NativeBalanceChecked ==
  ( /\ fn = "single"
    /\ call.data = EmptyData
    /\ call.value > chain.nativeBal ) =>
     /\ ~ Issued("estimateGas")
     /\ txs = << >>
     /\ pc = "done" => err.kind # "none"

Recognized(selector) ==
  selector \in {"0xa9059cbb", "0x23b872dd", "0x42842e0e", "0xf242432a"}

(* C11: a call whose selector is not a recognized transfer selector        *)
(* (native transfer, owner add/remove, unknown function) is simulated with *)
(* provider.call before the nonce/fee fetch and before gas estimation.     *)
C11_UnknownStillSimulated ==
  ( /\ fn = "single"
    /\ entry = "createSmartWalletTransaction"
    /\ ~ Recognized(Selector(call.data))
    /\ (Issued("getTransactionCount") \/ Issued("estimateGas")) ) =>
     Issued("call")

(* C12: when the selector is recognized but the arguments do not decode,   *)
(* the run issues no simulation and no gas estimation, returns nothing and *)
(* ends with an error; the failure is not turned into a warning.           *)
C12_MalformedCallRejected ==
  ( /\ fn = "single"
    /\ call.target # Account
    /\ Recognized(Selector(call.data))
    /\ ~ call.data.ok ) =>
     /\ warnings = {}
     /\ ~ Issued("call")
     /\ ~ Issued("estimateGas")
     /\ txs = << >>
     /\ pc = "done" => err.kind # "none"

(* C14: every returned transaction carries a fee per gas, and its gas      *)
(* limit times that fee is at most the signer's balance read in the run.   *)
C14_GasFundsCovered ==
  \A i \in 1..Len(txs) :
     /\ txs[i].maxFeePerGas # << >>
     /\ txs[i].gasLimit * OrZero(txs[i].maxFeePerGas) <= ownerBalance

(* C15: when gas estimation answered g, the gas limit of the returned      *)
(* transaction is floor(g * 150 / 100) on both paths, and it is not g.     *)
C15_GasLimitBuffered ==
  (estimated = "ok") =>
     \A i \in 1..Len(txs) :
        /\ txs[i].gasLimit * 100 <= gasEstimate * 150
        /\ gasEstimate * 150 < (txs[i].gasLimit + 1) * 100
        /\ txs[i].gasLimit # gasEstimate

C15_Witness ==
  /\ fn = "batch"
  /\ estimated = "ok"
  /\ gasEstimate = 21001
  /\ Len(txs) = 1
  /\ txs[1].gasLimit = 31501

(* C16: for a wrapped ENS name the plan is one multi-token                 *)
(* safeTransferFrom of amount 1 from the account to the recipient, and     *)
(* createNFTTransferTransaction runs it through the single-call path: the  *)
(* bytecode, ownership, balance and simulation checks precede the          *)
(* assembly and the payload is an execute encoding, never executeBatch.    *)
C16_WrappedIsSingleCall ==
  (plan # << >> /\ nftArgs.contract = NAME_WRAPPER) =>
     /\ Len(plan) = 1
     /\ plan[1].target = NAME_WRAPPER
     /\ Selector(plan[1].data) = "0xf242432a"
     /\ plan[1].data.from = Account
     /\ plan[1].data.to = Recipient
     /\ plan[1].data.id = nftArgs.tokenId
     /\ plan[1].data.amount = 1
     /\ entry = "createNFTTransferTransaction" =>
          /\ fn = "single"
          /\ call = plan[1]
          /\ Issued("getTransactionCount") =>
               /\ Issued("getCode")
               /\ isOwnerResult = "true"
               /\ Issued("balanceOf1155")
               /\ simulated = "ok"
          /\ \A i \in 1..Len(txs) :
               /\ txs[i].data.fn = "execute"
               /\ txs[i].data.calls = << plan[1] >>

C16_Witness ==
  /\ entry = "createNFTTransferTransaction"
  /\ nftArgs.contract = NAME_WRAPPER
  /\ Len(plan) = 1
  /\ Len(txs) = 1

Describes(label, c) ==
  \/ label = "Update ETH Record" /\ c.data.sig = "setAddr"
  \/ label = "Update Manager (Registry)" /\ c.data.sig = "setOwner"
  \/ label = "Transfer NFT Token (Owner)" /\ c.data.sig = "safeTransferFrom721"
  \/ label = "Transfer Wrapped ENS Token" /\ c.data.sig = "safeTransferFrom1155"

(* C17: the ENS plan has as many step labels as calls, and the i-th label  *)
(* describes the i-th call.                                                *)
C17_LabelsMatchCalls ==
  (entry = "createNFTTransferTransaction" /\ plan # << >>) =>
     /\ Len(steps) = Len(plan)
     /\ \A i \in 1..Len(plan) : Describes(steps[i], plan[i])

Invoked(service) == \E i \in 1..Len(ext) : ext[i] = service

(* C13: the signer and the broadcaster are invoked only after the builder  *)
(* returned a transaction in the same run; when the builder failed neither *)
(* is invoked; the broadcaster is invoked only after the signer.           *)
C13_SignOnlyAfterBuild ==
  /\ ext # << >> =>
       /\ pc = "done"
       /\ err.kind = "none"
       /\ Len(txs) = 1
       /\ ext[1] = "signTransactionSmart"
  /\ (handler # "none" /\ err.kind # "none") => ext = << >>
  /\ \A i \in 1..Len(ext) :
       ext[i] = "broadcastTransaction" => (i = 2 /\ ext[1] = "signTransactionSmart")

C13_Witness ==
  /\ handler = "nftManager"
  /\ Len(txs) = 1
  /\ ext = << "signTransactionSmart", "broadcastTransaction" >>

(* C18: when the registry answered with at least one well-formed address,  *)
(* findSmartWallets has returned exactly the well-formed addresses of the  *)
(* answer, in order, each marked as existing, and the fallback issued no   *)
(* address derivation, bytecode query or ownership query.                  *)
C18_RegistryResultReturned ==
  registry = "ok" =>
     LET good == SelectSeq(setups, LAMBDA a : a \in {WalletA, WalletB}) IN
     /\ pc = "done"
     /\ err.kind = "none"
     /\ fallback = {}
     /\ Len(good) > 0
     /\ Len(wallets) = Len(good)
     /\ \A i \in 1..Len(good) : wallets[i].address = good[i] /\ wallets[i].exists

C18_Witness ==
  /\ registry = "ok"
  /\ setups = << "not-an-address", WalletA >>
  /\ Len(wallets) = 1
  /\ wallets[1].address = WalletA

(* C19: when the registry request throws, answers with a non-OK status,    *)
(* has no setups list or no well-formed address, findSmartWallets goes on  *)
(* to the on-chain fallback and never ends with an error.                  *)
C19_RegistryFailureFallsBack ==
  registry \in {"throws", "notOk", "badJson", "noSetups", "noValid"} =>
     /\ err.kind = "none"
     /\ pc \in {"getAddress", "discGetCode", "discIsOwner", "done", "hung"}
     /\ pc = "done" => "getAddress" \in fallback

C19_Witness ==
  /\ registry = "throws"
  /\ pc = "done"
  /\ fallback = {"getAddress", "getCode", "isOwnerAddress"}
  /\ Len(wallets) = 1

(* C20: the fallback adds a record only in a step in which the ownership   *)
(* query answered true for a candidate with deployed bytecode.             *)
C20_FallbackRecordsConfirmed ==
  [][ (registry' # "ok" /\ Len(wallets') > Len(wallets)) =>
        (ownerAnswer' = "true" /\ "getCode" \in fallback') ]_vars

(* C21: a finished on-chain fallback has derived the candidate of every    *)
(* index 0, 1, 2 and 3 of both factory versions, with the default range    *)
(* and with the range the callers pass.                                    *)
C21_EveryIndexExamined ==
  (pc = "done" /\ registry \in {"throws", "notOk", "badJson", "noSetups", "noValid"}) =>
     \A f \in 1..Len(Factories) : \A n \in 0..3 : << Factories[f], n >> \in examined

(* C22: getPrimarySmartWallet returns null exactly when discovery found    *)
(* no account; otherwise the v1.1 record of index 0 when there is one,     *)
(* else the first v1 record of index 0, else the first record.             *)
C22_PrimarySelection ==
  primary \notin {"none", "pending"} =>
     LET ix == 1..Len(wallets)
         newest == { i \in ix : wallets[i].version = "v1.1" /\ wallets[i].nonce = 0 }
         oldest == { i \in ix : wallets[i].version = "v1" /\ wallets[i].nonce = 0 }
         first(S) == CHOOSE i \in S : \A j \in S : i <= j
     IN /\ caller = "getPrimarySmartWallet"
        /\ pc = "done"
        /\ primary = "null" <=> wallets = << >>
        /\ newest # {} => primary = wallets[first(newest)].address
        /\ (newest = {} /\ oldest # {}) => primary = wallets[first(oldest)].address
        /\ (newest = {} /\ oldest = {} /\ wallets # << >>) => primary = wallets[1].address

C22_Witness ==
  /\ Len(wallets) = 2
  /\ wallets[1].version = "v1" /\ wallets[1].nonce = 0
  /\ wallets[2].version = "v1.1" /\ wallets[2].nonce = 0
  /\ primary = wallets[2].address

(* C23: every pipeline run and every discovery run eventually ends with a  *)
(* result or an error, also when a network call is never answered.         *)
C23_RunsTerminate == [](pc # "idle" => <>(pc = "done"))

(* C24: when the ownership query of the pipeline failed instead of         *)
(* answering, the run does not end with the not-owner rejection: it        *)
(* reports a network error of its own kind.                                *)
C24_OwnerQueryFailureIsTransient ==
  (Pipeline /\ "Error checking owner" \in warnings) =>
     (pc = "done" /\ err.kind \in {"NetworkTimeout", "NetworkUnavailable", "RpcError"})

(* C25: a non-fungible or multi-token transfer whose decoded from field    *)
(* differs from the account, and whose owner-of or balance check passed,   *)
(* is never aborted for the mismatch: the run goes on to the simulation    *)
(* and, when the simulation and the assembly pass, returns a transaction.  *)
C25_FromMismatchDoesNotAbort ==
  /\ err.kind # "FromMismatch"
  /\ "from does not match Smart Wallet" \in warnings =>
       /\ call.data.from # Account
       /\ pc \in {"simulate", "fetch", "estimateGas", "ownerBalance", "done", "hung"}
       /\ pc \notin {"simulate", "hung"} => Issued("call")
       /\ err.kind \in {"none", "SimulationFailed", "RpcError", "GasEstimationFailed",
                        "InsufficientGasFunds"}
       /\ (pc = "done" /\ err.kind = "none") => Len(txs) = 1
  /\ (Pipeline /\ fn = "single" /\ call.data.from \notin {"", Account}
        /\ (Issued("ownerOf") \/ Issued("balanceOf1155"))
        /\ pc \notin {"ownerOf", "balanceOf1155"}
        /\ "from does not match Smart Wallet" \notin warnings)
       => (\/ err.kind \in {"NftNotOwned", "NftOwnerUnverifiable", "InsufficientAsset1155",
                            "BalanceUnverifiable1155"}
           \/ pc = "hung")

C25_Witness ==
  /\ call.data.sig = "safeTransferFrom1155"
  /\ call.data.from = Other
  /\ "from does not match Smart Wallet" \in warnings
  /\ simulated = "ok"
  /\ Len(txs) = 1

(* C26: every remove-owner call built by the owner-management flow carries *)
(* the index and the raw bytes of one and the same owner slot, and the     *)
(* stored index and bytes of a pending removal are those of one slot.      *)
C26_RemoveArgumentsOfOneEntry ==
  LET OneEntry(index, bytes) ==
        \E k \in 1..Len(OwnerSlots) :
           OwnerSlots[k].index = index /\ OwnerSlots[k].publicKey = bytes
  IN /\ (handler = "ownerManager" /\ call.data.sig = "removeOwnerAtIndex")
          => OneEntry(call.data.id, call.data.from)
     /\ operationType = "remove" => OneEntry(targetOwnerIndex, targetOwnerBytes)

C26_Witness ==
  /\ handler = "ownerManager"
  /\ call = createRemoveOwnerTransaction(Account, 2, ThirdBytes)
  /\ owners = << OwnerSlots[1], OwnerSlots[3] >>
  /\ Len(txs) = 1

C28_DiscoveryIdempotent ==
  (again /\ pc = "done" /\ err.kind = "none") =>
     { wallets[i] : i \in 1..Len(wallets) } = previous

(* C29: after any sequence of wallet-store actions the legacy fields       *)
(* mirror the multi-wallet fields: isSmartWallet is true exactly when      *)
(* activeWalletType is 'smart', and smartWalletAddress equals              *)
(* activeSmartWalletAddress.                                               *)
C29_LegacyFieldsMirror ==
  /\ isSmartWallet <=> activeWalletType = "smart"
  /\ smartWalletAddress = activeSmartWalletAddress

(* C30: after any sequence of wallet-store actions activeWalletType is     *)
(* 'smart' exactly when activeSmartWalletAddress is not null.              *)
C30_ActiveTypeMatchesAddress ==
  activeWalletType = "smart" <=> activeSmartWalletAddress # NullAddr

C30_Witness ==
  /\ activeWalletType = "smart"
  /\ activeSmartWalletAddress = WalletB
  /\ smartWalletAddress = NullAddr
  /\ availableSmartWallets = << WalletA, WalletB >>

(* C39: a step that disconnects the card puts address, publicKey, keySlot, *)
(* isConnected, balance, the legacy smart-wallet fields,                   *)
(* availableSmartWallets, activeWalletType and activeSmartWalletAddress    *)
(* back to their initial values and leaves chainId, rpcUrl, chainName and  *)
(* connectionMode as they were; in every state isConnected is true exactly *)
(* when address is not null.                                               *)
C39_DisconnectFrame ==
  /\ [](isConnected <=> address # NullAddr)
  /\ [][(isConnected /\ ~isConnected') =>
          /\ address' = NullAddr
          /\ publicKey' = NullAddr
          /\ keySlot' = 0
          /\ balance' = "0"
          /\ smartWalletAddress' = NullAddr
          /\ isSmartWallet' = FALSE
          /\ availableSmartWallets' = << >>
          /\ activeWalletType' = "burner"
          /\ activeSmartWalletAddress' = NullAddr
          /\ storeChain' = storeChain
          /\ connectionMode' = connectionMode]_vars

C39_Witness ==
  /\ storeOp = "disconnect"
  /\ ~isConnected
  /\ address = NullAddr
  /\ keySlot = 0
  /\ storeChain.chainName = "Base"
  /\ connectionMode = "gateway"

(* C38: in a fungible transfer whose token balance query failed, once the  *)
(* balance check has run, a positive amount has ended the run with the     *)
(* insufficient-balance error without a simulation or a gas estimation,    *)
(* and an amount of 0 has passed the check and gone on to the simulation   *)
(* (which, like every awaited request, may never be answered).             *)
C38_FailedBalanceCountsAsZero ==
  ( /\ fn = "single"
    /\ call.target # Account
    /\ decodeFunctionData("ERC20", "transfer", call.data)
    /\ chain.tokenBalFails
    /\ Issued("decimals") ) =>
     IF call.data.amount > 0
     THEN /\ pc = "done"
          /\ err.kind = "InsufficientAsset"
          /\ err.available = formatUnits(0, tokenDecimals)
          /\ ~ Issued("call")
          /\ ~ Issued("estimateGas")
          /\ txs = << >>
     ELSE /\ err.kind # "InsufficientAsset"
          /\ pc \in {"simulate", "hung"} \/ Issued("call")

C38_Witness ==
  /\ call.data.sig = "transfer"
  /\ call.data.amount = MaxAmount
  /\ chain.tokenBalFails
  /\ Issued("balanceOf")
  /\ pc = "done"
  /\ err.kind = "InsufficientAsset"

(* C33: a step by which the owner manager takes up a removal (it stores    *)
(* the target and asks for the PIN) happens only for an entry of the       *)
(* loaded list whose address is not the signer's and only while the list   *)
(* has more than one entry; and a remove-owner run of the pipeline carries *)
(* the index and bytes stored by such a step, never the signer's.          *)
C33_RemoveOnlyOtherOwners ==
  /\ []( (handler = "ownerManager" /\ call.data.sig = "removeOwnerAtIndex") =>
           /\ call = createRemoveOwnerTransaction(Account, targetOwnerIndex, targetOwnerBytes)
           /\ targetOwner # Signer
           /\ \E i \in 1..Len(OwnerSlots) :
                OwnerSlots[i] = OwnerInfo(targetOwner, targetOwnerBytes, targetOwnerIndex) )
  /\ [][ ( /\ operationType' = "remove"
           /\ showPinInput'
           /\ << operationType, targetOwner, targetOwnerIndex, targetOwnerBytes, showPinInput >>'
                # << operationType, targetOwner, targetOwnerIndex, targetOwnerBytes,
                     showPinInput >> ) =>
           /\ Len(owners) > 1
           /\ targetOwner' # Signer
           /\ \E i \in 1..Len(owners) :
                owners[i] = OwnerInfo(targetOwner', targetOwnerBytes', targetOwnerIndex') ]_vars

C33_Witness ==
  /\ handler = "ownerManager"
  /\ call = createRemoveOwnerTransaction(Account, 2, ThirdBytes)
  /\ targetOwner = Third
  /\ Len(owners) = 3
  /\ pc = "done"
  /\ txs # << >>

(* The entries the slots' answers call for: one for each slot that         *)
(* answered with parseable bytes, in slot order.                           *)
RECURSIVE EntriesOf(_, _)
EntriesOf(answers, n) ==
  IF n = 0 THEN << >>
  ELSE LET before == EntriesOf(answers, n - 1)
           bytes == answers[n] IN
       IF bytes = "error" \/ ownerAddressHex(bytes) = "0x" THEN before
       ELSE Append(before, [address |-> ownerAddressHex(bytes), publicKey |-> bytes,
                            index |-> n - 1])

(* C34: getSmartWalletOwners returns, in slot order, one entry for each    *)
(* slot 0..ownerCount-1 that answered with parseable bytes, carrying the   *)
(* slot's index and its raw bytes, whatever the other slots did; the call  *)
(* fails only if ownerCount() failed, before any slot was queried.         *)
C34_ListingSkipsFailedSlots ==
  /\ listPc = "returned" =>
       /\ Len(slotAnswers) = ownerCount
       /\ listed = EntriesOf(slotAnswers, ownerCount)
  /\ listPc = "failed" => slotAnswers = << >> /\ listed = << >>

C34_Witness ==
  /\ listPc = "returned"
  /\ ownerCount = 3
  /\ slotAnswers = << "error", SignerBytes, EmptyBytes >>
  /\ listed = << OwnerInfo(Signer, SignerBytes, 1) >>

(* C35: every token in the list stored under customTokens_<c> has          *)
(* chainId = c, whatever the order of chain switches, additions and        *)
(* removals.                                                               *)
C35_TokensPartitionedByChain ==
  \A c \in DOMAIN localStorage :
    \A i \in 1..Len(localStorage[c]) : localStorage[c][i].chainId = c

(* C31: whenever activeWalletType is 'smart', the active smart-wallet      *)
(* address is an entry of availableSmartWallets.                           *)
C31_ActiveWalletIsAvailable ==
  activeWalletType = "smart" =>
    \E i \in 1..Len(availableSmartWallets) :
      availableSmartWallets[i] = activeSmartWalletAddress

(* C36: the step that ends a manual verification makes the verified        *)
(* address the active and the only available wallet when isOwner answered  *)
(* true for it, and otherwise leaves the active wallet, the available list *)
(* and the legacy smart-wallet fields as they were.                        *)
C36_ManualWalletNeedsOwnership ==
  [][ (isChecking /\ ~ isChecking') =>
        IF checkAnswer' = "true"
        THEN /\ activeWalletType' = "smart"
             /\ activeSmartWalletAddress' = checkedAddress
             /\ availableSmartWallets' = << checkedAddress >>
             /\ smartWalletAddress' = checkedAddress
             /\ isSmartWallet'
        ELSE UNCHANGED << activeWalletType, activeSmartWalletAddress, availableSmartWallets,
                          smartWalletAddress, isSmartWallet >> ]_vars

C36_Witness ==
  /\ checkAnswer = "true"
  /\ ~ isChecking
  /\ checkedAddress = WalletB
  /\ activeSmartWalletAddress = WalletB
  /\ availableSmartWallets = << WalletB >>
  /\ storeOp = "setSmartWallet"

(* C32: at most one handlePinSubmit call of the NFT manager is in flight   *)
(* (building, signing, broadcasting or awaiting confirmation) at any time. *)
C32_OneTransferInFlight ==
  Cardinality(InFlight) <= 1

(* C37: a step that ends a handlePinSubmit call leaves isSending false; if *)
(* it ended on a wrong-PIN error it sets pinError and changes neither the  *)
(* PIN dialog nor the general error; if it ended on another failure it     *)
(* closes the PIN dialog and sets the general error; and the success       *)
(* dialog is raised and an NFT leaves the saved list only in the step that *)
(* follows the confirmation of that NFT's broadcast transaction.           *)
C37_PinSubmitOutcomes ==
  [][ /\ (\E r \in InFlight : runs'[r].stage = "none") =>
           /\ ~ isSending'
           /\ lastOutcome' = "WRONG_PWD" =>
                /\ pinError' = "set"
                /\ nftShowPinInput' = nftShowPinInput
                /\ nftError' = nftError
           /\ lastOutcome' = "failed" =>
                /\ ~ nftShowPinInput'
                /\ nftError' = "error"
      /\ ((nftIsConfirmed' /\ ~ nftIsConfirmed) \/ savedNFTs' # savedNFTs) =>
           \E r \in InFlight :
             /\ runs[r].stage = "wait"
             /\ runs'[r].stage = "none"
             /\ lastOutcome' = "confirmed"
             /\ nftIsConfirmed'
             /\ savedNFTs' = savedNFTs \ {runs[r].nft} ]_vars

C37_Witness ==
  /\ lastOutcome = "WRONG_PWD"
  /\ InFlight = {}
  /\ pinError = "set"
  /\ nftShowPinInput
  /\ nftError = "none"
  /\ ~ isSending
  /\ savedNFTs = {2}

====
